---- MODULE Spec2Model ----
(***************************************************************************)
(* Model of the LSP gateway of src/src: the framed JSON-RPC decoder and    *)
(* multiplexer of SubprocessManager (utils/subprocess_utils.py), the       *)
(* session router ConnectionHandler (connection.py) and the websocket      *)
(* endpoint (main.py).                                                     *)
(***************************************************************************)
EXTENDS Integers, Sequences, FiniteSets, TLC

\* ------------------------------------------------------------------ bounds
\* Longest message sequence put on the child's stdout in the decoder check.
MaxFrames == 2

\* ------------------------------------------------------- program constants
\* self.process.stdout.read(4096)
ReadSize == 4096

\* The value of message.get("id") when the key is absent or null (None).
None == 0

\* ------------------------------------------------------------------ helpers
Min(a, b) == IF a < b THEN a ELSE b

Drop(s, n) == SubSeq(s, n + 1, Len(s))

Take(s, n) == SubSeq(s, 1, n)

IsPrefix(s, t) == Len(s) <= Len(t) /\ Take(t, Len(s)) = s

\* bytes.find(sub): the lowest 0-based index where sub occurs in s, or -1.
Find(s, sub) ==
  LET hits == {i \in 0..(Len(s) - Len(sub)) : SubSeq(s, i + 1, i + Len(sub)) = sub}
  IN  IF hits = {} THEN -1 ELSE CHOOSE i \in hits : \A j \in hits : i <= j

\* ------------------------------------------------------------ frame codec
DigitChars == <<"0", "1", "2", "3", "4", "5", "6", "7", "8", "9">>

IsDigit(c) == \E d \in 1..10 : DigitChars[d] = c

DigitValue(c) == (CHOOSE d \in 1..10 : DigitChars[d] = c) - 1

\* str(n) for n >= 0, as a sequence of characters.
RECURSIVE Digits(_)
Digits(n) == IF n < 10 THEN <<DigitChars[n + 1]>>
             ELSE Digits(n \div 10) \o <<DigitChars[(n % 10) + 1]>>

\* int(s) for a non-empty run of digits.
RECURSIVE IntOf(_)
IntOf(s) == IF Len(s) = 0 THEN 0
            ELSE 10 * IntOf(Take(s, Len(s) - 1)) + DigitValue(s[Len(s)])

ContentLengthKey ==
  <<"C", "o", "n", "t", "e", "n", "t", "-", "L", "e", "n", "g", "t", "h", ":", " ">>

CRLFCRLF == <<"\r", "\n", "\r", "\n">>

\* SubprocessManager.send: headers + content.
Frame(body) == ContentLengthKey \o Digits(Len(body)) \o CRLFCRLF \o body

\* The maximal run of digits at the start of s (the group (\d+) of the regex).
RECURSIVE DigitRun(_)
DigitRun(s) == IF Len(s) > 0 /\ IsDigit(s[1]) THEN <<s[1]>> \o DigitRun(Drop(s, 1))
               ELSE <<>>

\* re.search(r'Content-Length: (\d+)', headers): the digits of the leftmost
\* match, or << >> when there is no match.
HeaderMatch(headers) ==
  LET n    == Len(ContentLengthKey)
      hits == {i \in 0..(Len(headers) - n - 1) :
                 /\ SubSeq(headers, i + 1, i + n) = ContentLengthKey
                 /\ IsDigit(headers[i + n + 1])}
  IN  IF hits = {} THEN <<>>
      ELSE LET i == CHOOSE h \in hits : \A j \in hits : h <= j
           IN  DigitRun(Drop(headers, i + n))

\* --------------------------------------------------------------- messages
\* Largest request id that appears on the wire.
MaxWireId == 2

\* Number of filler characters in the params/result of a long message: long
\* enough for a two-digit Content-Length.
PadLen == 8

\* Methods of the messages the language server writes on its stdout.
ServerMethods == {"window/logMessage"}

\* A JSON-RPC object as json.loads returns it: id is None when the key is
\* absent, method is "" when the key is absent, pad is the size of its payload.
WireMessages == [id : 0..MaxWireId, method : ServerMethods \cup {""}, pad : {0, PadLen}]

RECURSIVE Filler(_)
Filler(n) == IF n = 0 THEN <<>> ELSE <<"x">> \o Filler(n - 1)

\* json.dumps(message).encode('utf-8'): the body text, one token per element.
Encode(m) ==
  <<"{">>
  \o (IF m.id # None THEN <<"i">> \o Digits(m.id) ELSE <<>>)
  \o (IF m.method # "" THEN <<"m", m.method>> ELSE <<>>)
  \o Filler(m.pad)
  \o <<"}">>

\* json.loads(message_str): ok is FALSE for text that is no JSON document
\* (json.JSONDecodeError).
JsonLoads(bytes) ==
  IF \E m \in WireMessages : Encode(m) = bytes
  THEN [ok |-> TRUE, msg |-> CHOOSE m \in WireMessages : Encode(m) = bytes]
  ELSE [ok |-> FALSE, msg |-> [id |-> None, method |-> "", pad |-> 0]]

\* The byte stream of a sequence of messages, each framed by send.
RECURSIVE Stream(_)
Stream(ms) == IF ms = <<>> THEN <<>> ELSE Frame(Encode(Head(ms))) \o Stream(Tail(ms))

\* ------------------------------------------------------------------- state
VARIABLES
  \* --- SubprocessManager and its child
  pipe,            \* bytes the child has written to stdout and the reader has not read
  buffer,          \* SubprocessManager._buffer
  content_length,  \* SubprocessManager._content_length
  running,         \* SubprocessManager._running
  response_map,    \* SubprocessManager._response_map: id -> the waiter whose future it is
  future,          \* per waiter: the future created by its receive() call
  emitted,         \* every message _process_buffer parsed, with where it was routed
  spinning,        \* the reader is inside a _process_buffer call that never returns
  reader,          \* the _read_stdout task: "none", "reading" or "ended"
  notification_callback,  \* SubprocessManager._notification_callback is set
  process,         \* the child: "none" (no handle), "alive", "killed" by stop, or "dead" (exited)
  stdin,           \* the frames written to the child's stdin, in order
  answered,        \* the positions in stdin the language server has answered
  notified,        \* how many notifications the language server has emitted
  sent,            \* the messages the child wrote (decoder check)
  \* --- ConnectionHandler
  initialized,     \* ConnectionHandler.initialized
  next_id,         \* ConnectionHandler.next_id
  open_documents,  \* ConnectionHandler.open_documents
  subprocess,      \* ConnectionHandler.subprocess is not None
  workspace,       \* the directory workspace_path exists
  files,           \* per path under the workspace: the file's content, or Absent
  \* --- websocket_endpoint
  ws_out,          \* text frames sent on the websocket, in order
  registered,      \* active_connections holds the handler under its interviewId
  pc,              \* where the connection's task is
  cur,             \* the client message handle_message is working on
  ret,             \* where cleanup() returns to
  cl_id,           \* per task: the id of the shutdown request its cleanup() sent
  quota,           \* how many text frames the client will still send
  delivered,       \* every message a receive() call returned, with the caller and its id
  log,             \* what happened to each client frame, in order
  \* --- the process: every connection at once
  active_connections,  \* main.py active_connections: the interviewIds it holds
  dirs,            \* the directories that exist under base_workspace_dir
  sess,            \* per interviewId: where its endpoint is and its handler's fields
  outbox,          \* per interviewId: whose handler or child has sent on its websocket
  handlers,        \* per websocket connection: its interviewId, its endpoint and its handler's fields
  registry,        \* main.py active_connections as a dict: interviewId -> the connection whose handler it holds
  wsdir,           \* per interviewId: the connection whose makedirs created the workspace directory that exists
  \* --- services/lsp_manager.py: the class-level LSPManager of the second entry point
  _java_process,   \* LSPManager._java_process: "none" (None), "alive", or "died" (poll() is not None)
  _java_queue,     \* LSPManager._java_queue, oldest message first
  _java_request_id,  \* LSPManager._java_request_id
  _initialized,    \* LSPManager._initialized
  java_stdin,      \* the messages written to the Java server's stdin, in order
  java_stdout,     \* the messages the Java server has written and the reader has not read
  java_written,    \* how many messages the Java server has written
  java_answered,   \* how many of the requests in java_stdin the Java server has answered
  java_reader,     \* the JavaLSP-Output-Reader thread: "none", "running" or "exited"
  lsp_pc,          \* where the thread that calls LSPManager is
  request_id,      \* _wait_for_response: the id it waits for
  response,        \* _wait_for_response: the message it took from the queue
  attempts,        \* _verify_server_ready: the loop iterations made
  returned,        \* what each LSPManager call gave its caller, in order
  calls,           \* how many LSPManager calls the services will still make
  \* --- services/document_manager.py: the DocumentManager of the second entry point
  documents,       \* DocumentManager.documents: uri -> its entry
  services,        \* DocumentManager.services: the service keys it holds
  disk,            \* the files under config.WORKSPACE_DIR: path -> text
  opened,          \* per interview: the URIs it has opened since its last cleanup
  doc_cur,         \* the DocumentManager call being made: its name and its interview_id
  doc_calls        \* how many DocumentManager calls the clients will still cause

supVars == <<pipe, buffer, content_length, running, response_map, future, emitted,
             spinning, reader, notification_callback, process, stdin, answered,
             notified, sent>>

handlerVars == <<initialized, next_id, open_documents, subprocess, workspace, files>>

endpointVars == <<ws_out, registered, pc, cur, ret, cl_id, quota, delivered, log>>

lspVars == <<_java_process, _java_queue, _java_request_id, _initialized, java_stdin,
             java_stdout, java_written, java_answered, java_reader, lsp_pc, request_id,
             response,
             attempts, returned, calls>>

docVars == <<documents, services, disk, opened, doc_cur, doc_calls>>

\* The second entry point (src/main.py with services/), a program of its own.
svcVars == <<lspVars, docVars>>

sessVars == <<active_connections, dirs, sess, outbox, handlers, registry, wsdir, svcVars>>

vars == <<supVars, handlerVars, endpointVars, sessVars>>

\* The tasks that run the handler's coroutines: the connection's
\* websocket_endpoint call and the shutdown() the signal handler schedules.
Tasks == {"conn", "signal"}

\* The callers of receive(): the handshake, a forwarded client request, and
\* cleanup() entered from the connection or from the signal handler.
Waiters == {"init", "fwd", "cleanup", "signal"}

\* No client frame (the locals of handle_message are unset).
NoText == [json |-> "none", jsonrpc |-> "", method |-> "", id |-> None, params |-> FALSE,
           uri |-> "", content |-> ""]

NoFuture == [state |-> "none", id |-> None, result |-> 0]

\* ------------------------------------------------ SubprocessManager routing
\* Lines 151-160 with the callback's frame put ahead of the frames already
\* sent on the websocket.
DispatchMessage_NotifiesFirst(S, m) ==
  LET seq == Len(S.emitted) + 1 IN
  IF m.id \in DOMAIN S.rmap
  THEN LET w == S.rmap[m.id] IN
       IF S.fut[w].state = "pending"
       THEN [S EXCEPT !.fut[w] = [state |-> "done", id |-> @.id, result |-> seq],
                      !.emitted = Append(@, [msg |-> m, route |-> "response", to |-> w])]
       ELSE [S EXCEPT !.emitted = Append(@, [msg |-> m, route |-> "error", to |-> ""])]
  ELSE IF S.callback /\ m.method # ""
  THEN [S EXCEPT !.ws = <<[kind |-> "server", id |-> m.id, code |-> 0, seq |-> seq]>> \o @,
                 !.emitted = Append(@, [msg |-> m, route |-> "notification", to |-> ""])]
  ELSE [S EXCEPT !.emitted = Append(@, [msg |-> m, route |-> "unhandled", to |-> ""])]

\* Lines 151-160 with the elif at line 155 turned into a second if: a matched
\* response is handed to the notification callback as well.
DispatchMessage_AlsoNotifies(S, m) ==
  LET seq == Len(S.emitted) + 1
      T == IF S.callback
           THEN [S EXCEPT !.ws = Append(@, [kind |-> "server", id |-> m.id, code |-> 0,
                                            seq |-> seq])]
           ELSE S
  IN
  IF m.id \in DOMAIN S.rmap
  THEN LET w == S.rmap[m.id] IN
       IF S.fut[w].state = "pending"
       THEN [T EXCEPT !.fut[w] = [state |-> "done", id |-> @.id, result |-> seq],
                      !.emitted = Append(@, [msg |-> m, route |-> "response", to |-> w])]
       ELSE [S EXCEPT !.emitted = Append(@, [msg |-> m, route |-> "error", to |-> ""])]
  ELSE IF S.callback /\ m.method # ""
  THEN [S EXCEPT !.ws = Append(@, [kind |-> "server", id |-> m.id, code |-> 0, seq |-> seq]),
                 !.emitted = Append(@, [msg |-> m, route |-> "notification", to |-> ""])]
  ELSE [S EXCEPT !.emitted = Append(@, [msg |-> m, route |-> "unhandled", to |-> ""])]

\* Lines 151-160 for one parsed message m; seq is its position in emitted.
DispatchMessage(S, m) ==
  LET seq == Len(S.emitted) + 1 IN
  IF m.id \in DOMAIN S.rmap
  THEN LET w == S.rmap[m.id] IN
       IF S.fut[w].state = "pending"
       THEN [S EXCEPT !.fut[w] = [state |-> "done", id |-> @.id, result |-> seq],
                      !.emitted = Append(@, [msg |-> m, route |-> "response", to |-> w])]
       \* set_result on a future that is already done: InvalidStateError, logged
       ELSE [S EXCEPT !.emitted = Append(@, [msg |-> m, route |-> "error", to |-> ""])]
  ELSE IF S.callback /\ m.method # ""
  THEN [S EXCEPT !.ws = Append(@, [kind |-> "server", id |-> m.id, code |-> 0, seq |-> seq]),
                 !.emitted = Append(@, [msg |-> m, route |-> "notification", to |-> ""])]
  ELSE [S EXCEPT !.emitted = Append(@, [msg |-> m, route |-> "unhandled", to |-> ""])]

\* SubprocessManager._process_buffer: the whole call. hang is TRUE when the
\* loop is left in an iteration that changes nothing and so repeats forever.
RECURSIVE ProcessBuffer(_)
ProcessBuffer(S) ==
  IF Len(S.buf) = 0 THEN S
  ELSE
    LET he == Find(S.buf, CRLFCRLF)
        digits == HeaderMatch(Take(S.buf, he))
        H == IF S.cl >= 0 THEN [stop |-> FALSE, S |-> S]
             ELSE IF he = -1 THEN [stop |-> TRUE, S |-> S]
             ELSE IF digits = <<>> THEN [stop |-> TRUE, S |-> [S EXCEPT !.buf = <<>>]]
             ELSE [stop |-> FALSE,
                   S |-> [S EXCEPT !.buf = Drop(S.buf, he + 4), !.cl = IntOf(digits)]]
        T == H.S
    IN  IF H.stop THEN H.S
        ELSE IF Len(T.buf) >= T.cl
        THEN LET parsed == JsonLoads(Take(T.buf, T.cl))
                 U == [T EXCEPT !.buf = Drop(T.buf, T.cl), !.cl = -1]
             IN  IF parsed.ok THEN ProcessBuffer(DispatchMessage(U, parsed.msg))
                 ELSE ProcessBuffer(U)
        ELSE IF Len(T.buf) = 0 THEN T
        ELSE [T EXCEPT !.hang = TRUE]

\* The supervisor's fields as the record ProcessBuffer works on.
Supervisor ==
  [buf |-> buffer, cl |-> content_length, rmap |-> response_map, fut |-> future,
   ws |-> ws_out, emitted |-> emitted, callback |-> notification_callback,
   hang |-> FALSE]

\* One iteration of the loop of _read_stdout (lines 92-110) that reads k > 0
\* bytes: extend the buffer, then the whole _process_buffer call. While a
\* call spins, the event loop runs nothing else.
ReadStdout(k) ==
  /\ reader = "reading" /\ ~spinning
  /\ k \in 1..Min(Len(pipe), ReadSize)
  /\ LET S == ProcessBuffer([Supervisor EXCEPT !.buf = buffer \o Take(pipe, k)])
     IN  /\ pipe' = Drop(pipe, k)
         /\ buffer' = S.buf
         /\ content_length' = S.cl
         /\ future' = S.fut
         /\ ws_out' = S.ws
         /\ emitted' = S.emitted
         /\ spinning' = S.hang
  /\ reader' = IF running /\ process # "none" THEN "reading" ELSE "ended"
  /\ UNCHANGED <<running, response_map, notification_callback, process, stdin,
                 answered, notified, sent, sessVars>>
  /\ UNCHANGED <<handlerVars, registered, pc, cur, ret, cl_id, quota, delivered, log>>

\* --------------------------------------------- SubprocessManager send/receive
RemoveKey(m, k) == [i \in DOMAIN m \ {k} |-> m[i]]

PutKey(m, k, v) == [i \in DOMAIN m \cup {k} |-> IF i = k THEN v ELSE m[i]]

\* send returns normally: the guard of line 54 passes ("Subprocess not
\* running" otherwise) and the write and drain of lines 62-63 succeed; on the
\* stdin of a child that has exited drain raises and line 67 re-raises.
CanSend == running /\ process \notin {"none", "dead"}

\* send with the frame put ahead of what was written before.
Written_Overtaking(id, method, awaits) ==
  <<[id |-> id, method |-> method, reg |-> id \in DOMAIN response_map, awaits |-> awaits]>>
    \o stdin

\* send, lines 58-63: the frame written to the child's stdin. reg records
\* whether the id was in _response_map when the frame was written, awaits
\* whether the writer goes on to wait for the response.
Written(id, method, awaits) ==
  Append(stdin, [id |-> id, method |-> method,
                 reg |-> id \in DOMAIN response_map, awaits |-> awaits])

\* receive, lines 75-76: create the future and register it under msg_id.
Registered(w, id) == PutKey(response_map, id, w)

Pending(w, id) == [future EXCEPT ![w] = [state |-> "pending", id |-> id, result |-> 0]]

\* receive with a finally clause that empties _response_map.
Unregistered_ClearsAll(w) == <<>>

\* receive, lines 85-87: the finally clause drops whatever is registered
\* under the caller's id.
Unregistered(w) == RemoveKey(response_map, future[w].id)

\* receive() returns the parsed message (the dict json.loads made, lines
\* 149-155), never its text.
ReceiveReturnsDict == TRUE

\* connection.py lines 98 and 267: the f-string evaluates response[:200];
\* slicing a dict raises.
LogSliceRaises == ReceiveReturnsDict

\* ------------------------------------------------------ the language server
\* How many notifications the language server emits on its own.
MaxNotifications == 1

\* The child answers the request at position i of its stdin.
ServerReply(i) ==
  /\ process = "alive"
  /\ i \in 1..Len(stdin) /\ i \notin answered
  /\ stdin[i].id # None /\ stdin[i].method # ""
  /\ pipe' = pipe \o Frame(Encode([id |-> stdin[i].id, method |-> "", pad |-> 0]))
  /\ answered' = answered \cup {i}
  /\ UNCHANGED <<buffer, content_length, running, response_map, future, emitted,
                 spinning, reader, notification_callback, process, stdin, notified, sent, sessVars>>
  /\ UNCHANGED <<handlerVars, endpointVars>>

\* How many requests of its own the child sends to the client.
MaxServerRequests == 1

\* The child writes a request of its own (an id and a method); sent records it.
ServerRequest(i) ==
  /\ process = "alive"
  /\ Len(sent) < MaxServerRequests
  /\ i \in 1..MaxWireId
  /\ LET m == [id |-> i, method |-> "window/logMessage", pad |-> 0] IN
       /\ pipe' = pipe \o Frame(Encode(m))
       /\ sent' = Append(sent, m)
  /\ UNCHANGED <<buffer, content_length, running, response_map, future, emitted,
                 spinning, reader, notification_callback, process, stdin, answered,
                 notified, sessVars>>
  /\ UNCHANGED <<handlerVars, endpointVars>>

\* The child exits on its own (crash, or killed from outside).
ServerDies ==
  /\ process = "alive"
  /\ process' = "dead"
  /\ UNCHANGED <<pipe, buffer, content_length, running, response_map, future, emitted,
                 spinning, reader, notification_callback, stdin, answered, notified, sent, sessVars>>
  /\ UNCHANGED <<handlerVars, endpointVars>>

\* The child writes a notification.
ServerNotify ==
  /\ process = "alive"
  /\ notified < MaxNotifications
  /\ pipe' = pipe \o Frame(Encode([id |-> None, method |-> "window/logMessage", pad |-> 0]))
  /\ notified' = notified + 1
  /\ UNCHANGED <<buffer, content_length, running, response_map, future, emitted,
                 spinning, reader, notification_callback, process, stdin, answered, sent, sessVars>>
  /\ UNCHANGED <<handlerVars, endpointVars>>

\* ------------------------------------------------------ the workspace files
\* The document URIs of the client: the scaffolded main file and a second
\* source file.
Uri == "file:///w/src/Main.java"

OtherUri == "file:///w/src/Other.java"

Uris == {Uri, OtherUri}

\* handle_message line 221: uri.replace("file://", "").
PathOf(uri) ==
  CASE uri = Uri -> "/w/src/Main.java"
    [] uri = OtherUri -> "/w/src/Other.java"
    [] OTHER -> uri

Paths == {PathOf(u) : u \in Uris}

\* No file at a path.
Absent == "absent"

\* The content _create_project_files writes to src/Main.java (lines 146-152).
Template == "public class Main {...}"

\* shutil.rmtree(workspace_path): no file is left under the workspace.
NoFiles == [p \in Paths |-> Absent]

\* _create_project_files on the directory initialize has just emptied.
Scaffold == [p \in Paths |-> IF p = PathOf(Uri) THEN Template ELSE Absent]

\* ---------------------------------------------------------------- cleanup
\* The waiter name of the receive() inside cleanup(), per task.
CleanupWaiter(t) == IF t = "conn" THEN "cleanup" ELSE "signal"

\* cleanup() returns to its caller: the finally clause of websocket_endpoint
\* (then lines 115-118), the didClose branch of handle_message (then the
\* forward at line 261) or its exit branch (then return at line 259).
ReturnTo(t) ==
  CASE ret[t] = "finally" -> "unregister"
    [] ret[t] = "close" -> "fwd_send"
    [] ret[t] = "exit" -> "loop"
    [] OTHER -> "done"

\* An exception leaves cleanup(): the except at main.py line 119 swallows it
\* (the registry entry stays) and so does the one at line 128 in shutdown();
\* inside handle_message the except at line 276 replies -32603 with the
\* message's id.
RaisedTo(t) == IF ret[t] \in {"close", "exit"} THEN "loop" ELSE "done"

RaisedReply(t) ==
  IF ret[t] \in {"close", "exit"}
  THEN Append(ws_out, [kind |-> "error", id |-> cur.id, code |-> -32603, seq |-> 0])
  ELSE ws_out

RaisedLog(t) ==
  IF ret[t] \in {"close", "exit"}
  THEN Append(log, [text |-> cur, outcome |-> "internal_error", init |-> initialized,
                    reply |-> "error"])
  ELSE log

\* cleanup lines 286-290 and 299-301: with a supervisor and initialized, take
\* an id and write the shutdown request; otherwise only remove the workspace.
CleanupStart(t) ==
  /\ pc[t] = "cl_start" /\ ~spinning
  /\ IF subprocess /\ initialized
     THEN /\ next_id' = next_id + 1
          /\ cl_id' = [cl_id EXCEPT ![t] = next_id]
          /\ IF CanSend
             THEN /\ stdin' = Written(next_id, "shutdown", TRUE)
                  /\ pc' = [pc EXCEPT ![t] = "cl_recv"]
                  /\ UNCHANGED <<ws_out, log>>
             ELSE /\ pc' = [pc EXCEPT ![t] = RaisedTo(t)]
                  /\ ws_out' = RaisedReply(t)
                  /\ log' = RaisedLog(t)
                  /\ UNCHANGED stdin
          /\ UNCHANGED <<workspace, files>>
     ELSE /\ workspace' = FALSE
          /\ files' = NoFiles
          /\ pc' = [pc EXCEPT ![t] = ReturnTo(t)]
          /\ UNCHANGED <<next_id, cl_id, stdin, ws_out, log>>
  /\ UNCHANGED <<pipe, buffer, content_length, running, response_map, future, emitted,
                 spinning, reader, notification_callback, process, answered, notified, sent, sessVars>>
  /\ UNCHANGED <<initialized, open_documents, subprocess, registered, cur, ret,
                 quota, delivered>>

\* cleanup line 291, receive up to its await: self.subprocess may have been
\* set to None meanwhile (AttributeError); a stopped supervisor returns None.
CleanupReceive(t) ==
  /\ pc[t] = "cl_recv" /\ ~spinning
  /\ IF ~subprocess
     THEN /\ pc' = [pc EXCEPT ![t] = RaisedTo(t)]
          /\ ws_out' = RaisedReply(t)
          /\ log' = RaisedLog(t)
          /\ UNCHANGED <<response_map, future>>
     ELSE IF ~running
     THEN /\ pc' = [pc EXCEPT ![t] = "cl_exit"]
          /\ UNCHANGED <<response_map, future, ws_out, log>>
     ELSE /\ response_map' = Registered(CleanupWaiter(t), cl_id[t])
          /\ future' = Pending(CleanupWaiter(t), cl_id[t])
          /\ pc' = [pc EXCEPT ![t] = "cl_wait"]
          /\ UNCHANGED <<ws_out, log>>
  /\ UNCHANGED <<pipe, buffer, content_length, running, emitted, spinning, reader,
                 notification_callback, process, stdin, answered, notified, sent, sessVars>>
  /\ UNCHANGED <<handlerVars, registered, cur, ret, cl_id, quota, delivered>>

\* cleanup lines 291-293: receive returns the response, or None after 5 s.
CleanupResume(t) ==
  LET w == CleanupWaiter(t) IN
  /\ pc[t] = "cl_wait" /\ ~spinning
  /\ future[w].state \in {"pending", "done"}
  /\ delivered' = IF future[w].state = "done"
                  THEN Append(delivered, [waiter |-> w, id |-> future[w].id,
                                          seq |-> future[w].result])
                  ELSE delivered
  /\ response_map' = Unregistered(w)
  /\ future' = [future EXCEPT ![w] = NoFuture]
  /\ pc' = [pc EXCEPT ![t] = "cl_exit"]
  /\ UNCHANGED <<pipe, buffer, content_length, running, emitted, spinning, reader,
                 notification_callback, process, stdin, answered, notified, sent, sessVars>>
  /\ UNCHANGED <<handlerVars, ws_out, registered, cur, ret, cl_id, quota, log>>

\* cleanup line 294: the exit notification.
CleanupExit(t) ==
  /\ pc[t] = "cl_exit" /\ ~spinning
  /\ IF subprocess /\ CanSend
     THEN /\ stdin' = Written(None, "exit", FALSE)
          /\ pc' = [pc EXCEPT ![t] = "cl_stop"]
          /\ UNCHANGED <<ws_out, log>>
     ELSE /\ pc' = [pc EXCEPT ![t] = RaisedTo(t)]
          /\ ws_out' = RaisedReply(t)
          /\ log' = RaisedLog(t)
          /\ UNCHANGED stdin
  /\ UNCHANGED <<pipe, buffer, content_length, running, response_map, future, emitted,
                 spinning, reader, notification_callback, process, answered, notified, sent, sessVars>>
  /\ UNCHANGED <<handlerVars, registered, cur, ret, cl_id, quota, delivered>>

\* cleanup line 295, SubprocessManager.stop up to its wait for the child:
\* _running is cleared first, so the send of the shutdown request at line 211
\* raises and the except clause kills the child. A supervisor that is already
\* stopped returns at line 202 without suspending, and cleanup runs on
\* through lines 296-301.
CleanupStop(t) ==
  /\ pc[t] = "cl_stop" /\ ~spinning
  /\ IF ~subprocess
     THEN /\ pc' = [pc EXCEPT ![t] = RaisedTo(t)]
          /\ ws_out' = RaisedReply(t)
          /\ log' = RaisedLog(t)
          /\ UNCHANGED <<running, process, subprocess, initialized, workspace, files>>
     ELSE IF running /\ process \notin {"none", "dead"}
     THEN /\ running' = FALSE
          /\ process' = "killed"
          /\ pc' = [pc EXCEPT ![t] = "cl_finish"]
          /\ UNCHANGED <<ws_out, log, subprocess, initialized, workspace, files>>
     ELSE \* already stopped (line 202), or the child has exited: with a
          \* returncode line 209 skips the send and the wait, stop drops the
          \* handle, and cleanup runs on without suspending
          /\ running' = IF process = "none" THEN running ELSE FALSE
          /\ process' = IF running THEN "none" ELSE process
          /\ subprocess' = FALSE
          /\ initialized' = FALSE
          /\ workspace' = FALSE
          /\ files' = NoFiles
          /\ pc' = [pc EXCEPT ![t] = ReturnTo(t)]
          /\ UNCHANGED <<ws_out, log>>
  /\ UNCHANGED <<pipe, buffer, content_length, response_map, future, emitted,
                 spinning, reader, notification_callback, stdin, answered, notified, sent, sessVars>>
  /\ UNCHANGED <<next_id, open_documents, registered, cur, ret, cl_id, quota, delivered>>

\* stop line 230 and cleanup lines 296-301: the process handle and the
\* supervisor are dropped, initialized is reset, the workspace is removed.
CleanupFinish(t) ==
  /\ pc[t] = "cl_finish" /\ ~spinning
  /\ process' = "none"
  /\ subprocess' = FALSE
  /\ initialized' = FALSE
  /\ workspace' = FALSE
  /\ files' = NoFiles
  /\ pc' = [pc EXCEPT ![t] = ReturnTo(t)]
  /\ UNCHANGED <<pipe, buffer, content_length, running, response_map, future, emitted,
                 spinning, reader, notification_callback, stdin, answered, notified, sent, sessVars>>
  /\ UNCHANGED <<next_id, open_documents, ws_out, registered, cur, ret, cl_id,
                 quota, delivered, log>>

\* _read_stdout lines 94-97: the read returns no data (the child is gone and
\* the pipe is drained), the loop is left.
ReadEof ==
  /\ reader = "reading" /\ ~spinning
  /\ pipe = <<>> /\ process # "alive"
  /\ reader' = "ended"
  /\ UNCHANGED <<pipe, buffer, content_length, running, response_map, future, emitted,
                 spinning, notification_callback, process, stdin, answered, notified, sent, sessVars>>
  /\ UNCHANGED <<handlerVars, endpointVars>>

\* ------------------------------------------------------ websocket_endpoint
\* main.py lines 86-98: accept, construct the handler, put it in the registry.
Connect ==
  /\ pc["conn"] = "connect"
  /\ registered' = TRUE
  /\ pc' = [pc EXCEPT !["conn"] = "init_start"]
  /\ UNCHANGED <<supVars, sessVars, handlerVars, ws_out, cur, ret, cl_id, quota, delivered, log>>

\* main.py lines 107-114: the finally clause calls cleanup().
EndpointFinally ==
  /\ pc["conn"] = "finally" /\ ~spinning
  /\ pc' = [pc EXCEPT !["conn"] = "cl_start"]
  /\ ret' = [ret EXCEPT !["conn"] = "finally"]
  /\ UNCHANGED <<supVars, sessVars, handlerVars, ws_out, registered, cur, cl_id, quota,
                 delivered, log>>

\* main.py lines 115-118: after cleanup() returned, drop the registry entry.
EndpointUnregister ==
  /\ pc["conn"] = "unregister" /\ ~spinning
  /\ registered' = FALSE
  /\ pc' = [pc EXCEPT !["conn"] = "done"]
  /\ UNCHANGED <<supVars, sessVars, handlerVars, ws_out, cur, ret, cl_id, quota, delivered, log>>

\* --------------------------------------------- ConnectionHandler.initialize
\* initialize lines 36-63: recreate the workspace, construct the supervisor,
\* install the callback and start the child; a failed spawn raises.
InitializeStart ==
  /\ pc["conn"] = "init_start"
  /\ workspace' = TRUE
  /\ files' = Scaffold
  /\ subprocess' = TRUE
  /\ notification_callback' = TRUE
  /\ \/ /\ process' = "alive"
        /\ running' = TRUE
        /\ reader' = "reading"
        /\ pc' = [pc EXCEPT !["conn"] = "init_send"]
     \/ /\ UNCHANGED <<process, running, reader>>
        /\ pc' = [pc EXCEPT !["conn"] = "finally"]
  /\ UNCHANGED <<pipe, buffer, content_length, response_map, future, emitted, spinning,
                 stdin, answered, notified, sent, sessVars>>
  /\ UNCHANGED <<initialized, next_id, open_documents, ws_out, registered, cur, ret,
                 cl_id, quota, delivered, log>>

\* initialize lines 72-93: take the id, then write the initialize request.
InitializeSend ==
  /\ pc["conn"] = "init_send" /\ ~spinning
  /\ next_id' = next_id + 1
  /\ cl_id' = [cl_id EXCEPT !["conn"] = next_id]
  /\ stdin' = Written(next_id, "initialize", TRUE)
  /\ pc' = [pc EXCEPT !["conn"] = "init_recv"]
  /\ UNCHANGED <<pipe, buffer, content_length, running, response_map, future, emitted,
                 spinning, reader, notification_callback, process, answered, notified, sent, sessVars>>
  /\ UNCHANGED <<initialized, open_documents, subprocess, workspace, files, ws_out, registered,
                 cur, ret, quota, delivered, log>>

\* initialize line 96, receive up to its await (lines 71-79).
InitializeReceive ==
  /\ pc["conn"] = "init_recv" /\ ~spinning
  /\ response_map' = Registered("init", cl_id["conn"])
  /\ future' = Pending("init", cl_id["conn"])
  /\ pc' = [pc EXCEPT !["conn"] = "init_wait"]
  /\ UNCHANGED <<pipe, buffer, content_length, running, emitted, spinning, reader,
                 notification_callback, process, stdin, answered, notified, sent, sessVars>>
  /\ UNCHANGED <<handlerVars, ws_out, registered, cur, ret, cl_id, quota, delivered, log>>

\* initialize lines 96-139 once receive returns: with a response, line 98
\* slices it and the exception becomes the RuntimeError of line 139; were the
\* slice to succeed, lines 109-126 set initialized, forward the response and
\* write initialized and didOpen. Without a response line 132 raises.
InitializeResume ==
  LET got == future["init"].state = "done"
      ok  == got /\ ~LogSliceRaises
      seq == future["init"].result
      s1  == Append(stdin, [id |-> None, method |-> "initialized",
                            reg |-> FALSE, awaits |-> FALSE])
  IN
  /\ pc["conn"] = "init_wait" /\ ~spinning
  /\ future["init"].state \in {"pending", "done"}
  /\ delivered' = IF got
                  THEN Append(delivered, [waiter |-> "init", id |-> future["init"].id,
                                          seq |-> seq])
                  ELSE delivered
  /\ response_map' = Unregistered("init")
  /\ future' = [future EXCEPT !["init"] = NoFuture]
  /\ initialized' = ok
  /\ ws_out' = IF ok
               THEN Append(ws_out, [kind |-> "response", id |-> emitted[seq].msg.id,
                                    code |-> 0, seq |-> seq])
               ELSE ws_out
  /\ stdin' = IF ok
              THEN Append(s1, [id |-> None, method |-> "textDocument/didOpen",
                               reg |-> FALSE, awaits |-> FALSE])
              ELSE stdin
  /\ pc' = [pc EXCEPT !["conn"] = IF ok THEN "loop" ELSE "finally"]
  /\ UNCHANGED <<pipe, buffer, content_length, running, emitted, spinning, reader,
                 notification_callback, process, answered, notified, sent, sessVars>>
  /\ UNCHANGED <<next_id, open_documents, subprocess, workspace, files, registered, cur, ret,
                 cl_id, quota, log>>

\* ----------------------------------------- ConnectionHandler.handle_message
\* How many text frames the client sends on one connection.
MaxClientFrames == 2

\* A text frame; its document, where it names one, is the main file.
Text(json, jsonrpc, method, id, params) ==
  [json |-> json, jsonrpc |-> jsonrpc, method |-> method, id |-> id, params |-> params,
   uri |-> IF params THEN Uri ELSE "", content |-> ""]

\* A document notification with its params: the uri and, for didOpen, the
\* text, for didChange the text of a full-content change ("" for an empty
\* contentChanges list).
DocText(method, uri, content) ==
  [json |-> "object", jsonrpc |-> "2.0", method |-> method, id |-> None, params |-> TRUE,
   uri |-> uri, content |-> content]

\* The text frames the client may send: text that is no JSON, JSON that is
\* no object, an object with a wrong version, requests (with an id) and
\* notifications, with and without their params.
ClientTexts ==
  { Text("invalid", "", "", None, FALSE),
    Text("array", "", "", None, FALSE),
    Text("object", "1.0", "textDocument/completion", 1, TRUE),
    Text("object", "2.0", "initialize", 1, TRUE),
    Text("object", "2.0", "textDocument/didOpen", None, TRUE),
    Text("object", "2.0", "textDocument/didOpen", None, FALSE),
    Text("object", "2.0", "textDocument/didClose", None, TRUE),
    Text("object", "2.0", "exit", None, FALSE) }
  \cup { Text("object", "2.0", "textDocument/completion", i, TRUE) : i \in 1..MaxWireId }

\* The methods whose branch at lines 211-254 reads message["params"].
ReadsParams(method) ==
  method \in {"textDocument/didOpen", "textDocument/didChange", "textDocument/didClose",
              "textDocument/completion"}

\* handle_message lines 221-223: a didChange with content changes opens the
\* file "r+", which raises when there is no file at the path.
OpenFails(text, fs) ==
  /\ text.method = "textDocument/didChange" /\ text.params /\ text.content # ""
  /\ (PathOf(text.uri) \notin DOMAIN fs \/ fs[PathOf(text.uri)] = Absent)

\* handle_message lines 222-238: a full-content change replaces the file's
\* content; nothing else in the handler writes a file.
FilesAfter(text, fs) ==
  IF text.method = "textDocument/didChange" /\ text.params /\ text.content # ""
  THEN [fs EXCEPT ![PathOf(text.uri)] = text.content]
  ELSE fs

\* handle_message without the check of line 204.
Classify_NoInitCheck(text, init, docs, fs) ==
  CASE text.json = "invalid" -> "parse_error"
    [] text.json # "invalid" /\ text.json # "object" -> "unbound"
    [] text.json = "object" /\ text.jsonrpc # "2.0" -> "invalid_request"
    [] OTHER ->
         IF ReadsParams(text.method) /\ ~text.params THEN "internal_error"
         ELSE IF OpenFails(text, fs) THEN "internal_error"
         ELSE IF text.method = "exit" THEN "exit"
         ELSE IF text.method = "textDocument/didClose" /\ docs \ {text.uri} = {} THEN "close_last"
         ELSE "forward"

\* handle_message lines 197-259, up to its first await: what the handler
\* does with the text.
\*   "parse_error"      json.loads raised JSONDecodeError (line 273)
\*   "unbound"          message.get raised on a non-object; the except at line
\*                      276 reads msg_id, which line 209 has not assigned yet
\*   "invalid_request"  line 200
\*   "not_initialized"  line 204
\*   "internal_error"   a branch raised (missing params), line 276
\*   "exit"             line 256
\*   "close_last"       line 250: the last document was closed
\*   "forward"          line 261
Classify(text, init, docs, fs) ==
  CASE text.json = "invalid" -> "parse_error"
    [] text.json # "invalid" /\ text.json # "object" -> "unbound"
    [] text.json = "object" /\ text.jsonrpc # "2.0" -> "invalid_request"
    [] text.json = "object" /\ text.jsonrpc = "2.0" /\ ~init /\ text.method # "initialize"
         -> "not_initialized"
    [] OTHER ->
         IF ReadsParams(text.method) /\ ~text.params THEN "internal_error"
         ELSE IF OpenFails(text, fs) THEN "internal_error"
         ELSE IF text.method = "exit" THEN "exit"
         ELSE IF text.method = "textDocument/didClose" /\ docs \ {text.uri} = {} THEN "close_last"
         ELSE "forward"

\* open_documents after lines 211-249.
DocsAfter(text, docs) ==
  IF ~text.params THEN docs
  ELSE IF text.method = "textDocument/didOpen" THEN docs \cup {text.uri}
  ELSE IF text.method = "textDocument/didClose" THEN docs \ {text.uri}
  ELSE docs

\* send_error, lines 280-283.
ErrorReply(id, code) == [kind |-> "error", id |-> id, code |-> code, seq |-> 0]

\* The replies of lines 201, 205, 274 and 278 with the message's id echoed at
\* line 201.
LocalReply_EchoId(class, text) ==
  CASE class = "parse_error" -> ErrorReply(None, -32700)
    [] class = "invalid_request" -> ErrorReply(text.id, -32600)
    [] class = "not_initialized" -> ErrorReply(text.id, -32002)
    [] OTHER -> ErrorReply(text.id, -32603)

\* The replies of lines 201, 205, 274 and 278.
LocalReply(class, text) ==
  CASE class = "parse_error" -> ErrorReply(None, -32700)
    [] class = "invalid_request" -> ErrorReply(None, -32600)
    [] class = "not_initialized" -> ErrorReply(text.id, -32002)
    [] OTHER -> ErrorReply(text.id, -32603)

Logged(text, outcome, reply) ==
  Append(log, [text |-> text, outcome |-> outcome, init |-> initialized, reply |-> reply])

\* handle_message lines 261-271 up to the await inside receive: write the
\* text to the child, for didChange after the didChangeWatchedFiles
\* notification of line 240; a failing send (no supervisor, not running) is
\* caught at line 276. With an id the handler goes on to receive().
Forward(text) ==
  IF subprocess /\ CanSend
  THEN /\ stdin' = IF text.method = "textDocument/didChange"
                    THEN Append(Written(None, "workspace/didChangeWatchedFiles", FALSE),
                                [id |-> text.id, method |-> text.method,
                                 reg |-> text.id \in DOMAIN response_map,
                                 awaits |-> text.id # None])
                    ELSE Written(text.id, text.method, text.id # None)
       /\ IF text.id # None
          THEN /\ pc' = [pc EXCEPT !["conn"] = "fwd_recv"]
               /\ UNCHANGED <<ws_out, log>>
          ELSE /\ pc' = [pc EXCEPT !["conn"] = "loop"]
               /\ log' = Logged(text, "forwarded", "none")
               /\ UNCHANGED ws_out
  ELSE /\ ws_out' = Append(ws_out, ErrorReply(text.id, -32603))
       /\ log' = Logged(text, "internal_error", "error")
       /\ pc' = [pc EXCEPT !["conn"] = "loop"]
       /\ UNCHANGED stdin

\* main.py lines 104-106 and handle_message up to its first await, for the
\* next text frame of the client.
HandleMessage(text) ==
  LET class == Classify(text, initialized, open_documents, files) IN
  /\ pc["conn"] = "loop" /\ ~spinning
  /\ quota > 0
  /\ quota' = quota - 1
  /\ cur' = text
  /\ CASE class \in {"parse_error", "invalid_request", "not_initialized", "internal_error"} ->
            /\ ws_out' = Append(ws_out, LocalReply(class, text))
            /\ log' = Logged(text, class, "error")
            /\ UNCHANGED <<pc, ret, stdin, open_documents, files>>
       [] class = "unbound" ->
            /\ pc' = [pc EXCEPT !["conn"] = "finally"]
            /\ log' = Logged(text, "propagated", "none")
            /\ UNCHANGED <<ws_out, ret, stdin, open_documents, files>>
       [] class = "exit" ->
            /\ pc' = [pc EXCEPT !["conn"] = "cl_start"]
            /\ ret' = [ret EXCEPT !["conn"] = "exit"]
            /\ log' = Logged(text, "exit", "none")
            /\ UNCHANGED <<ws_out, stdin, open_documents, files>>
       [] class = "close_last" ->
            /\ open_documents' = DocsAfter(text, open_documents)
            /\ pc' = [pc EXCEPT !["conn"] = "cl_start"]
            /\ ret' = [ret EXCEPT !["conn"] = "close"]
            /\ UNCHANGED <<ws_out, stdin, log, files>>
       [] OTHER ->
            /\ open_documents' = DocsAfter(text, open_documents)
            /\ files' = FilesAfter(text, files)
            /\ Forward(text)
            /\ UNCHANGED ret
  /\ UNCHANGED <<pipe, buffer, content_length, running, response_map, future, emitted,
                 spinning, reader, notification_callback, process, answered, notified, sent, sessVars>>
  /\ UNCHANGED <<initialized, next_id, subprocess, workspace, registered, cl_id, delivered>>

\* handle_message line 261 when cleanup() has returned in the didClose branch.
ForwardAfterClose ==
  /\ pc["conn"] = "fwd_send" /\ ~spinning
  /\ Forward(cur)
  /\ UNCHANGED <<pipe, buffer, content_length, running, response_map, future, emitted,
                 spinning, reader, notification_callback, process, answered, notified, sent, sessVars>>
  /\ UNCHANGED <<handlerVars, registered, cur, ret, cl_id, quota, delivered>>

\* handle_message line 265, receive up to its await (lines 71-79): no
\* supervisor raises (line 276); a stopped one returns None (line 271).
ForwardReceive ==
  /\ pc["conn"] = "fwd_recv" /\ ~spinning
  /\ IF ~subprocess \/ ~running
     THEN /\ ws_out' = Append(ws_out, ErrorReply(cur.id, -32603))
          /\ log' = Logged(cur, IF subprocess THEN "timeout" ELSE "internal_error", "error")
          /\ pc' = [pc EXCEPT !["conn"] = "loop"]
          /\ UNCHANGED <<response_map, future>>
     ELSE /\ response_map' = Registered("fwd", cur.id)
          /\ future' = Pending("fwd", cur.id)
          /\ pc' = [pc EXCEPT !["conn"] = "fwd_wait"]
          /\ UNCHANGED <<ws_out, log>>
  /\ UNCHANGED <<pipe, buffer, content_length, running, emitted, spinning, reader,
                 notification_callback, process, stdin, answered, notified, sent, sessVars>>
  /\ UNCHANGED <<handlerVars, registered, cur, ret, cl_id, quota, delivered>>

\* handle_message lines 265-278 once receive returns: a response is sliced at
\* line 267 and the exception is answered at line 278 (were the slice to
\* succeed, line 268 forwards the response); None is answered at line 271.
ForwardResume ==
  LET got == future["fwd"].state = "done"
      seq == future["fwd"].result
  IN
  /\ pc["conn"] = "fwd_wait" /\ ~spinning
  /\ future["fwd"].state \in {"pending", "done"}
  /\ delivered' = IF got
                  THEN Append(delivered, [waiter |-> "fwd", id |-> future["fwd"].id,
                                          seq |-> seq])
                  ELSE delivered
  /\ response_map' = Unregistered("fwd")
  /\ future' = [future EXCEPT !["fwd"] = NoFuture]
  /\ IF got /\ ~LogSliceRaises
     THEN /\ ws_out' = Append(ws_out, [kind |-> "response", id |-> emitted[seq].msg.id,
                                       code |-> 0, seq |-> seq])
          /\ log' = Logged(cur, "answered", "response")
     ELSE /\ ws_out' = Append(ws_out, ErrorReply(cur.id, -32603))
          /\ log' = Logged(cur, IF got THEN "answered" ELSE "timeout", "error")
  /\ pc' = [pc EXCEPT !["conn"] = "loop"]
  /\ UNCHANGED <<pipe, buffer, content_length, running, emitted, spinning, reader,
                 notification_callback, process, stdin, answered, notified, sent, sessVars>>
  /\ UNCHANGED <<handlerVars, registered, cur, ret, cl_id, quota>>

\* main.py lines 104 and 107: receive_text raises WebSocketDisconnect.
Disconnect ==
  /\ pc["conn"] = "loop" /\ ~spinning
  /\ pc' = [pc EXCEPT !["conn"] = "finally"]
  /\ UNCHANGED <<supVars, sessVars, handlerVars, ws_out, registered, cur, ret, cl_id, quota,
                 delivered, log>>

\* main.py lines 122-134: the signal handler schedules shutdown(), which
\* calls cleanup() of every handler in the registry.
SignalShutdown ==
  /\ pc["signal"] = "idle" /\ ~spinning
  /\ registered
  /\ pc' = [pc EXCEPT !["signal"] = "cl_start"]
  /\ ret' = [ret EXCEPT !["signal"] = "signal"]
  /\ UNCHANGED <<supVars, sessVars, handlerVars, ws_out, registered, cur, cl_id, quota,
                 delivered, log>>

\* The chunk sizes the reader sees in the session checks, for a pipe of n
\* bytes: all of it, all but its last byte (the last frame split inside its
\* body) and, at the start of a frame, HeaderCut bytes (a frame split inside
\* its header). The decoder check feeds every chunk size.
HeaderCut == 8

ChunkSizes(n) ==
  {k \in {n, n - 1, HeaderCut} : k >= 1 /\ k <= Min(n, ReadSize) /\ (k = HeaderCut => buffer = <<>>)}

\* ------------------------------------------------- the process's sessions
\* The interviewIds of the clients connected at the same time. The path
\* parameter of /ws/{interviewId} is any non-empty text without a slash.
SessionIds == {"a", "b", "."}

\* base_workspace_dir, as its path components.
BaseDir == <<"workspaces">>

\* ConnectionHandler.__init__ line 28: os.path.join(base_workspace_dir, id).
WorkspacePath(id) == BaseDir \o <<id>>

\* The directory a path names: a "." component names the directory itself.
RECURSIVE Resolve(_)
Resolve(path) ==
  IF path = <<>> THEN <<>>
  ELSE IF Head(path) = "." THEN Resolve(Tail(path))
  ELSE <<Head(path)>> \o Resolve(Tail(path))

\* os.path.exists(path); base_workspace_dir itself always exists (main.py
\* lines 62-64).
Exists(ds, path) == Resolve(path) = BaseDir \/ Resolve(path) \in ds

\* shutil.rmtree(path, ignore_errors=True): everything inside the directory
\* goes, and the directory itself.
Rmtree(ds, path) == {d \in ds : ~IsPrefix(Resolve(path), d)}

\* os.makedirs(path, exist_ok=True).
Makedirs(ds, path) == IF Resolve(path) = BaseDir THEN ds ELSE ds \cup {Resolve(path)}

\* The websocket connections that may name the same interviewId, and the
\* interviewIds they name.
Connections == {"c1", "c2"}
SharedIds == {"a", "b"}

dupVars == <<handlers, registry, wsdir>>

\* A connection that has not been accepted.
NoHandler == [id |-> "", pc |-> "none", initialized |-> FALSE, subprocess |-> FALSE,
              child |-> "none"]

\* A handler that has not been constructed.
NoSession == [pc |-> "none", initialized |-> FALSE, subprocess |-> FALSE, child |-> "none",
              open_documents |-> {}]

\* A message of the Java server: a notification has no id.
NoResponse == [id |-> None, seq |-> 0]

\* LSPManager's class attributes as the class body leaves them, before
\* initialize_servers.
NoLSP ==
  /\ _java_process = "none"
  /\ _java_queue = <<>>
  /\ _java_request_id = 1
  /\ _initialized = FALSE
  /\ java_stdin = <<>> /\ java_stdout = <<>> /\ java_written = 0 /\ java_answered = 0
  /\ java_reader = "none"
  /\ lsp_pc = "idle"
  /\ request_id = None /\ response = NoResponse
  /\ attempts = 0
  /\ returned = <<>>
  /\ calls = 0

\* DocumentManager.__init__: no document, no service; an empty workspace.
NoDocuments ==
  /\ documents = <<>>
  /\ services = {}
  /\ disk = <<>>
  /\ opened = <<>>
  /\ doc_cur = [op |-> "", interview_id |-> <<>>]
  /\ doc_calls = 0

\* The second entry point is not running.
NoServices == NoLSP /\ NoDocuments

\* No connection yet.
NoConnections ==
  /\ active_connections = {}
  /\ dirs = {}
  /\ sess = [s \in SessionIds |-> NoSession]
  /\ outbox = [s \in SessionIds |-> {}]
  /\ handlers = [c \in Connections |-> NoHandler]
  /\ registry = [i \in SharedIds |-> "none"]
  /\ wsdir = [i \in SharedIds |-> "none"]

\* The gateway alone: no connection yet, and the second entry point is not
\* running.
NoSessions == NoConnections /\ NoServices

\* Everything that belongs to the one connection modelled step by step.
oneVars == <<supVars, handlerVars, endpointVars, svcVars>>

\* main.py lines 86-98 for the connection with interviewId s.
SessionConnect(s) ==
  /\ sess[s].pc = "none"
  /\ sess' = [sess EXCEPT ![s].pc = "init"]
  /\ active_connections' = active_connections \cup {s}
  /\ UNCHANGED <<dirs, outbox, oneVars, dupVars>>

\* ConnectionHandler.initialize as one call: the workspace is emptied and
\* created again, the child is started, and the handshake raises or (ok) is
\* completed as lines 109-126 would.
SessionInitialize(s) ==
  /\ sess[s].pc = "init"
  /\ dirs' = Makedirs(Rmtree(dirs, WorkspacePath(s)), WorkspacePath(s))
  /\ \E ok \in BOOLEAN :
       /\ sess' = [sess EXCEPT ![s] = [pc |-> IF ok THEN "loop" ELSE "finally",
                                       initialized |-> ok, subprocess |-> TRUE,
                                       child |-> "alive", open_documents |-> {}]]
       /\ outbox' = IF ok THEN [outbox EXCEPT ![s] = @ \cup {s}] ELSE outbox
  /\ UNCHANGED <<active_connections, oneVars, dupVars>>

\* handle_message for one text frame of s's client: a reply, or a forward
\* answered by s's child, goes out on self.websocket; didOpen records the uri.
SessionMessage(s) ==
  /\ sess[s].pc = "loop"
  /\ \E opens \in BOOLEAN :
       sess' = [sess EXCEPT ![s].open_documents = IF opens /\ sess[s].initialized
                                                   THEN @ \cup {Uri} ELSE @]
  /\ outbox' = [outbox EXCEPT ![s] = @ \cup {s}]
  /\ UNCHANGED <<active_connections, dirs, oneVars, dupVars>>

\* _handle_notification of s's handler: a message of s's child goes out on
\* self.websocket.
SessionNotification(s) ==
  /\ sess[s].child = "alive" /\ sess[s].pc \in {"loop", "finally"}
  /\ outbox' = [outbox EXCEPT ![s] = @ \cup {s}]
  /\ UNCHANGED <<active_connections, dirs, sess, oneVars, dupVars>>

\* main.py line 107: s's client disconnects.
SessionDisconnect(s) ==
  /\ sess[s].pc = "loop"
  /\ sess' = [sess EXCEPT ![s].pc = "finally"]
  /\ UNCHANGED <<active_connections, dirs, outbox, oneVars, dupVars>>

\* cleanup() of s's handler as one call (lines 285-301).
SessionCleanup(s) ==
  /\ sess[s].pc = "finally"
  /\ sess' = IF sess[s].subprocess /\ sess[s].initialized
             THEN [sess EXCEPT ![s].pc = "unregister", ![s].subprocess = FALSE,
                               ![s].initialized = FALSE, ![s].child = "none"]
             ELSE [sess EXCEPT ![s].pc = "unregister"]
  /\ dirs' = IF Exists(dirs, WorkspacePath(s)) THEN Rmtree(dirs, WorkspacePath(s)) ELSE dirs
  /\ UNCHANGED <<active_connections, outbox, oneVars, dupVars>>

\* main.py lines 115-117.
SessionUnregister(s) ==
  /\ sess[s].pc = "unregister"
  /\ active_connections' = active_connections \ {s}
  /\ sess' = [sess EXCEPT ![s].pc = "closed"]
  /\ UNCHANGED <<dirs, outbox, oneVars, dupVars>>

\* main.py lines 86-98 for connection c with interviewId id: the handler is
\* constructed and stored under id, whatever active_connections holds there.
ConnAccept(c, id) ==
  /\ handlers[c].pc = "none"
  /\ handlers' = [handlers EXCEPT ![c].id = id, ![c].pc = "init"]
  /\ registry' = [registry EXCEPT ![id] = c]
  /\ UNCHANGED <<wsdir, active_connections, dirs, sess, outbox, oneVars>>

\* ConnectionHandler.initialize lines 36-96 of c's handler: the workspace is
\* removed and created again, the child is started, initialize is sent and
\* the handler waits in receive.
ConnInitialize(c) ==
  /\ handlers[c].pc = "init"
  /\ wsdir' = [wsdir EXCEPT ![handlers[c].id] = c]
  /\ handlers' = [handlers EXCEPT ![c].pc = "init_wait", ![c].subprocess = TRUE,
                                    ![c].child = "alive"]
  /\ UNCHANGED <<registry, active_connections, dirs, sess, outbox, oneVars>>

\* initialize lines 96-139 of c's handler once receive returns: it raises, or
\* (ok) completes as lines 109-126 would.
ConnInitialized(c) ==
  /\ handlers[c].pc = "init_wait"
  /\ \E ok \in BOOLEAN :
       handlers' = [handlers EXCEPT ![c].pc = IF ok THEN "loop" ELSE "finally",
                                     ![c].initialized = ok]
  /\ UNCHANGED <<registry, wsdir, active_connections, dirs, sess, outbox, oneVars>>

\* main.py line 107: c's client disconnects.
ConnDisconnect(c) ==
  /\ handlers[c].pc = "loop"
  /\ handlers' = [handlers EXCEPT ![c].pc = "finally"]
  /\ UNCHANGED <<registry, wsdir, active_connections, dirs, sess, outbox, oneVars>>

\* cleanup() of c's handler as one call (lines 285-301).
ConnCleanup(c) ==
  /\ handlers[c].pc = "finally"
  /\ handlers' = IF handlers[c].subprocess /\ handlers[c].initialized
                 THEN [handlers EXCEPT ![c].pc = "unregister", ![c].subprocess = FALSE,
                                       ![c].initialized = FALSE, ![c].child = "none"]
                 ELSE [handlers EXCEPT ![c].pc = "unregister"]
  /\ wsdir' = [wsdir EXCEPT ![handlers[c].id] = "none"]
  /\ UNCHANGED <<registry, active_connections, dirs, sess, outbox, oneVars>>

\* main.py lines 115-117 in c's endpoint: the entry under c's interviewId is
\* deleted if there is one.
ConnUnregister(c) ==
  /\ handlers[c].pc = "unregister"
  /\ registry' = [registry EXCEPT ![handlers[c].id] = "none"]
  /\ handlers' = [handlers EXCEPT ![c].pc = "closed"]
  /\ UNCHANGED <<wsdir, active_connections, dirs, sess, outbox, oneVars>>

\* ----------------------------------------------------------- decoder check
\* The messages the child writes in the decoder check: a short and a long
\* response to the outstanding request 1, a response nobody waits for and a
\* notification.
DecMessages ==
  { [id |-> 1, method |-> "", pad |-> 0], [id |-> 1, method |-> "", pad |-> PadLen],
    [id |-> 2, method |-> "", pad |-> 0],
    [id |-> None, method |-> "window/logMessage", pad |-> 0] }

SeqsUpTo(S, n) == UNION {[1..k -> S] : k \in 1..n}

\* A started supervisor with the handshake's receive(1) outstanding and the
\* child's whole output waiting in the pipe.
InitDecoder ==
  /\ sent \in SeqsUpTo(DecMessages, MaxFrames)
  /\ pipe = Stream(sent)
  /\ buffer = <<>>
  /\ content_length = -1
  /\ running = TRUE
  /\ response_map = (1 :> "init")
  /\ future = [w \in Waiters |->
                 IF w = "init" THEN [state |-> "pending", id |-> 1, result |-> 0]
                 ELSE NoFuture]
  /\ ws_out = <<>>
  /\ emitted = <<>>
  /\ spinning = FALSE
  /\ reader = "reading"
  /\ notification_callback = TRUE
  /\ process = "alive"
  /\ stdin = <<>>
  /\ answered = {}
  /\ notified = 0
  /\ initialized = FALSE
  /\ next_id = 2
  /\ open_documents = {}
  /\ subprocess = TRUE
  /\ workspace = TRUE
  /\ files = Scaffold
  /\ registered = TRUE
  /\ pc = [t \in Tasks |-> IF t = "conn" THEN "init_wait" ELSE "idle"]
  /\ cur = NoText
  /\ ret = [t \in Tasks |-> "none"]
  /\ cl_id = [t \in Tasks |-> None]
  /\ quota = 0
  /\ delivered = <<>>
  /\ log = <<>>
  /\ NoSessions

NextDecoder == \E k \in 1..Min(Len(pipe), ReadSize) : ReadStdout(k)

SpecDecoder == InitDecoder /\ [][NextDecoder]_vars

Msgs(es) == [i \in 1..Len(es) |-> es[i].msg]

\* C1: for every chunking of the stream of M1..Mn, _process_buffer dispatches
\* exactly M1..Mn, once each and in order: what has been dispatched is always
\* a prefix of M1..Mn, and until all of it has been dispatched the reader is
\* able to take the next chunk.
C1_FramingResilience ==
  /\ IsPrefix(Msgs(emitted), sent)
  /\ (Msgs(emitted) = sent \/ (pipe # <<>> /\ ~spinning))

\* C2: every call of _process_buffer returns; with 0 < k < n body bytes
\* buffered it returns with the k bytes kept and the body of n still awaited.
C2_ProcessBufferReturns ==
  (content_length >= 0 /\ 0 < Len(buffer) /\ Len(buffer) < content_length) => ~spinning

\* C2's case: a header has been consumed and only part of its body is buffered.
C2_PartialBody == content_length >= 0 /\ 0 < Len(buffer) /\ Len(buffer) < content_length

\* ------------------------------------------------------------ the handshake
\* A connection from the moment the websocket is accepted; the workspace
\* directory may be left over from an earlier session with the same id.
InitHandshake ==
  /\ pipe = <<>> /\ buffer = <<>> /\ content_length = -1
  /\ running = FALSE
  /\ response_map = <<>>
  /\ future = [w \in Waiters |-> NoFuture]
  /\ emitted = <<>> /\ spinning = FALSE /\ reader = "none"
  /\ notification_callback = FALSE
  /\ process = "none" /\ stdin = <<>> /\ answered = {} /\ notified = 0
  /\ sent = <<>>
  /\ initialized = FALSE /\ next_id = 1 /\ open_documents = {}
  /\ subprocess = FALSE
  /\ workspace \in BOOLEAN
  /\ files = NoFiles
  /\ ws_out = <<>> /\ registered = FALSE
  /\ pc = [t \in Tasks |-> IF t = "conn" THEN "connect" ELSE "idle"]
  /\ cur = NoText
  /\ ret = [t \in Tasks |-> "none"]
  /\ cl_id = [t \in Tasks |-> None]
  /\ quota = 0 /\ delivered = <<>> /\ log = <<>>
  /\ NoSessions

NextHandshake ==
  \/ Connect
  \/ InitializeStart
  \/ InitializeSend
  \/ InitializeReceive
  \/ InitializeResume
  \/ EndpointFinally
  \/ \E t \in Tasks : CleanupStart(t)
  \/ EndpointUnregister
  \/ \E k \in ChunkSizes(Len(pipe)) : ReadStdout(k)
  \/ \E i \in 1..Len(stdin) : ServerReply(i)
  \/ ServerNotify

SpecHandshake == InitHandshake /\ [][NextHandshake]_vars

\* C3: every request written to the child that its writer then waits on
\* (initialize, a forwarded request with an id, shutdown) had its id in
\* _response_map when the frame was written.
C3_RegisteredBeforeWrite ==
  \A i \in 1..Len(stdin) : stdin[i].awaits => stdin[i].reg

\* C7: when receive() hands the server's answer to initialize(), the handshake
\* completes: the response goes to the client, the initialized notification is
\* written after it, the flag is set and the receive loop is entered.
C7_InitializeSucceeds ==
  [][ (Len(delivered') = Len(delivered) + 1 /\ delivered'[Len(delivered')].waiter = "init")
      => /\ initialized'
         /\ Len(ws_out') = Len(ws_out) + 1
         /\ ws_out'[Len(ws_out')].kind = "response"
         /\ ws_out'[Len(ws_out')].id = delivered'[Len(delivered')].id
         /\ Len(stdin') > Len(stdin)
         /\ stdin'[Len(stdin) + 1].method = "initialized"
         /\ pc'["conn"] = "loop" ]_vars

\* C12: once cleanup() has been called and websocket_endpoint has finished,
\* the session is released: the workspace directory is removed, the child is
\* no longer running and the registry holds no entry for the session.
C12_CleanupReleases ==
  pc["conn"] = "done" => (~workspace /\ process # "alive" /\ ~registered)

\* C23: when initialize() failed or timed out after the supervisor was
\* started and websocket_endpoint has finished, the language server is no
\* longer running, the workspace is removed and the registry entry is gone.
C23_FailedInitCleaned ==
  (pc["conn"] = "done" /\ subprocess /\ ~initialized /\ Len(stdin) > 0)
    => (process # "alive" /\ ~workspace /\ ~registered)

\* C34: in every reachable state, a language server that is alive has its
\* workspace directory: the directory is created before the child is spawned
\* and is removed only after the child has been stopped.
C34_AliveHasWorkspace ==
  process = "alive" => workspace

\* --------------------------------------------------------- the receive loop
\* The handler when the receive loop takes its first frame. initialize() as
\* written never returns normally (InitializeResume), so the loop is examined
\* from each state of the handler's fields: no supervisor yet, a running
\* supervisor whose handshake raised, and a completed handshake.
EntryStates == {"fresh", "failed", "initialized"}

HandshakeFrames(entry) ==
  IF entry = "fresh" THEN <<>>
  ELSE <<[id |-> 1, method |-> "initialize", reg |-> FALSE, awaits |-> TRUE]>>
       \o (IF entry = "initialized"
           THEN <<[id |-> None, method |-> "initialized", reg |-> FALSE, awaits |-> FALSE],
                  [id |-> None, method |-> "textDocument/didOpen", reg |-> FALSE,
                   awaits |-> FALSE]>>
           ELSE <<>>)

LoopEntry(entry, frames) ==
    /\ pipe = <<>> /\ buffer = <<>> /\ content_length = -1
    /\ running = (entry # "fresh")
    /\ response_map = <<>>
    /\ future = [w \in Waiters |-> NoFuture]
    /\ emitted = <<>> /\ spinning = FALSE
    /\ reader = IF entry = "fresh" THEN "none" ELSE "reading"
    /\ notification_callback = (entry # "fresh")
    /\ process = IF entry = "fresh" THEN "none" ELSE "alive"
    /\ stdin = HandshakeFrames(entry)
    /\ answered = IF entry = "fresh" THEN {} ELSE {1}
    /\ notified = 0
    /\ sent = <<>>
    /\ initialized = (entry = "initialized")
    /\ next_id = IF entry = "fresh" THEN 1 ELSE 2
    /\ open_documents = {}
    /\ subprocess = (entry # "fresh")
    /\ workspace = (entry # "fresh")
    /\ files = IF entry = "fresh" THEN NoFiles ELSE Scaffold
    /\ ws_out = <<>> /\ registered = TRUE
    /\ pc = [t \in Tasks |-> IF t = "conn" THEN "loop" ELSE "idle"]
    /\ cur = NoText
    /\ ret = [t \in Tasks |-> "none"]
    /\ cl_id = [t \in Tasks |-> None]
    /\ quota = frames /\ delivered = <<>> /\ log = <<>>
    /\ NoSessions

InitRouter == \E entry \in EntryStates : LoopEntry(entry, MaxClientFrames)

NextRouter ==
  \/ \E text \in ClientTexts : HandleMessage(text)
  \/ ForwardAfterClose
  \/ ForwardReceive
  \/ ForwardResume
  \/ Disconnect
  \/ EndpointFinally
  \/ EndpointUnregister
  \/ \E t \in Tasks : CleanupStart(t)
  \/ \E t \in Tasks : CleanupReceive(t)
  \/ \E t \in Tasks : CleanupResume(t)
  \/ \E t \in Tasks : CleanupExit(t)
  \/ \E t \in Tasks : CleanupStop(t)
  \/ \E t \in Tasks : CleanupFinish(t)
  \/ \E k \in ChunkSizes(Len(pipe)) : ReadStdout(k)
  \/ ReadEof
  \/ \E i \in 1..Len(stdin) : ServerReply(i)

SpecRouter == InitRouter /\ [][NextRouter]_vars

\* The step in which handle_message takes the next text frame.
TakesFrame == quota' = quota - 1

C8_PreInitReject ==
  [][ (TakesFrame /\ ~initialized /\ cur'.json = "object" /\ cur'.jsonrpc = "2.0"
         /\ cur'.method # "initialize")
      => /\ ws_out' = Append(ws_out, [kind |-> "error", id |-> cur'.id, code |-> -32002,
                                       seq |-> 0])
         /\ UNCHANGED <<stdin, workspace, open_documents>>
         /\ pc'["conn"] = "loop" ]_vars

\* C8's case: an uninitialized handler has rejected a request that carries an id.
C8_Rejected ==
  \E i \in 1..Len(log) :
    /\ log[i].outcome = "not_initialized" /\ ~log[i].init /\ log[i].text.id # None
    /\ \E k \in 1..Len(ws_out) : ws_out[k].code = -32002 /\ ws_out[k].id = log[i].text.id

\* C9: text that is no JSON gets the one reply -32700 and an object whose
\* jsonrpc is not "2.0" the one reply -32600, both with id null; nothing is
\* written to the server, the supervisor and the handler's fields stay as they
\* are, and the handler has returned to the receive loop, so the next frame
\* is handled from the state the rejected frame found.
C9_LocalReject ==
  [][ (TakesFrame /\ (cur'.json = "invalid" \/ (cur'.json = "object" /\ cur'.jsonrpc # "2.0")))
      => /\ ws_out' = Append(ws_out, [kind |-> "error", id |-> None,
                                       code |-> IF cur'.json = "invalid" THEN -32700 ELSE -32600,
                                       seq |-> 0])
         /\ UNCHANGED <<supVars, handlerVars, registered, ret, cl_id, delivered>>
         /\ pc'["conn"] = "loop" ]_vars

\* C9's case: a frame with an id was rejected for its version and the next
\* frame was forwarded to the server.
C9_RejectedThenForwarded ==
  \E i \in 1..(Len(log) - 1) :
    /\ log[i].outcome = "invalid_request" /\ log[i].text.id # None
    /\ log[i + 1].outcome = "forwarded"
    /\ \E k \in 1..Len(ws_out) : ws_out[k].code = -32600

C17_ForwardOrder ==
  [][ /\ IsPrefix(stdin, stdin')
      /\ (TakesFrame /\ Len(stdin') > Len(stdin))
           => /\ stdin'[Len(stdin')].method = cur'.method
              /\ stdin'[Len(stdin')].id = cur'.id ]_vars

\* C17's case: two client messages have been forwarded, and their frames lie
\* in stdin in the order the client sent them.
C17_TwoForwarded ==
  /\ Len(log) = 2
  /\ \A k \in 1..2 : log[k].init /\ log[k].outcome \in {"forwarded", "answered", "timeout"}
  /\ log[1].text.method # log[2].text.method
  /\ \E i, j \in 1..Len(stdin) :
        /\ i < j
        /\ stdin[i].method = log[1].text.method /\ stdin[i].id = log[1].text.id
        /\ stdin[j].method = log[2].text.method /\ stdin[j].id = log[2].text.id

ShutdownFrames == 1

\* The requests of the client in this check.
RequestTexts == {t \in ClientTexts : t.jsonrpc = "2.0" /\ t.method = "textDocument/completion"}

InitShutdown == LoopEntry("initialized", ShutdownFrames)

NextShutdown ==
  \/ \E text \in RequestTexts : HandleMessage(text)
  \/ ForwardReceive
  \/ ForwardResume
  \/ SignalShutdown
  \/ \E t \in Tasks : CleanupStart(t)
  \/ \E t \in Tasks : CleanupReceive(t)
  \/ \E t \in Tasks : CleanupResume(t)
  \/ \E t \in Tasks : CleanupExit(t)
  \/ \E t \in Tasks : CleanupStop(t)
  \/ \E t \in Tasks : CleanupFinish(t)
  \/ \E k \in ChunkSizes(Len(pipe)) : ReadStdout(k)
  \/ ReadEof
  \/ \E i \in 1..Len(stdin) : ServerReply(i)
  \/ ServerNotify

SpecShutdown == InitShutdown /\ [][NextShutdown]_vars

\* ------------------------------------------------- order of server messages
\* How many requests the client has in flight while the child sends messages
\* of its own.
OrderingFrames == 1

InitOrdering == LoopEntry("initialized", OrderingFrames)

NextOrdering ==
  \/ \E text \in RequestTexts : HandleMessage(text)
  \/ ForwardReceive
  \/ ForwardResume
  \/ \E k \in ChunkSizes(Len(pipe)) : ReadStdout(k)
  \/ \E i \in 1..Len(stdin) : ServerReply(i)
  \/ ServerNotify
  \/ \E i \in 1..MaxWireId : ServerRequest(i)

SpecOrdering == InitOrdering /\ [][NextOrdering]_vars

\* The frames on the websocket that carry a message of the child.
FromServer(f) == f.kind \in {"server", "response"}

DeathFrames == 1

InitServerDeath == LoopEntry("initialized", DeathFrames)

NextServerDeath ==
  \/ \E text \in RequestTexts : HandleMessage(text)
  \/ ForwardReceive
  \/ ForwardResume
  \/ ServerDies
  \/ Disconnect
  \/ EndpointFinally
  \/ EndpointUnregister
  \/ \E t \in Tasks : CleanupStart(t)
  \/ \E t \in Tasks : CleanupReceive(t)
  \/ \E t \in Tasks : CleanupResume(t)
  \/ \E t \in Tasks : CleanupExit(t)
  \/ \E t \in Tasks : CleanupStop(t)
  \/ \E t \in Tasks : CleanupFinish(t)
  \/ \E k \in ChunkSizes(Len(pipe)) : ReadStdout(k)
  \/ ReadEof
  \/ \E i \in 1..Len(stdin) : ServerReply(i)

SpecServerDeath == InitServerDeath /\ [][NextServerDeath]_vars

\* C26: in the step in which the stdout reader leaves its loop on EOF, the
\* supervisor's running flag becomes false and no wait is left pending in
\* _response_map.
C26_EofFailsWaits ==
  [][ (reader = "reading" /\ reader' = "ended")
        => /\ ~running'
           /\ \A w \in Waiters : future'[w].state # "pending"
           /\ response_map' = <<>> ]_vars

InitSessions == LoopEntry("fresh", 0)

NextSessions ==
  \/ \E s \in SessionIds : SessionConnect(s)
  \/ \E s \in SessionIds : SessionInitialize(s)
  \/ \E s \in SessionIds : SessionMessage(s)
  \/ \E s \in SessionIds : SessionNotification(s)
  \/ \E s \in SessionIds : SessionDisconnect(s)
  \/ \E s \in SessionIds : SessionCleanup(s)
  \/ \E s \in SessionIds : SessionUnregister(s)

SpecSessions == InitSessions /\ [][NextSessions]_vars

\* C14: for distinct interviewIds a and b with b live, only b's own handler
\* and child send on b's websocket, and a step of a's disconnect, cleanup or
\* unregistration leaves b's handler fields, workspace directory and registry
\* entry as they were.
C14_SessionIsolation ==
  [][ \A a, b \in SessionIds :
        (a # b /\ sess[b].pc = "loop")
        => /\ outbox'[b] \subseteq {b}
           /\ (sess[a].pc \in {"loop", "finally", "unregister"} /\ sess'[a] # sess[a])
              => /\ sess'[b] = sess[b]
                 /\ Exists(dirs', WorkspacePath(b)) = Exists(dirs, WorkspacePath(b))
                 /\ (b \in active_connections') = (b \in active_connections) ]_vars

\* ------------------------------------------------- document synchronisation
\* How many document notifications the client sends.
MaxDocFrames == 3

\* The texts the client puts in didOpen and in full-content changes.
ClientContents == {"class A {}", "class B {}"}

\* The document notifications of the client.
DocTexts ==
  { DocText("textDocument/didOpen", u, c) : u \in Uris, c \in ClientContents }
  \cup { DocText("textDocument/didChange", u, c) : u \in Uris, c \in ClientContents \cup {""} }
  \cup { DocText("textDocument/didClose", u, "") : u \in Uris }

InitDocuments == LoopEntry("initialized", MaxDocFrames)

NextDocuments ==
  \/ \E text \in DocTexts : HandleMessage(text)
  \/ ForwardAfterClose
  \/ \E t \in Tasks : CleanupStart(t)
  \/ \E t \in Tasks : CleanupReceive(t)
  \/ \E t \in Tasks : CleanupResume(t)
  \/ \E t \in Tasks : CleanupExit(t)
  \/ \E t \in Tasks : CleanupStop(t)
  \/ \E t \in Tasks : CleanupFinish(t)

SpecDocuments == InitDocuments /\ [][NextDocuments]_vars

\* The text the client last committed for uri: its didOpen text with the
\* later full-content changes applied, "" before any.
RECURSIVE Committed(_, _)
Committed(entries, uri) ==
  IF entries = <<>> THEN ""
  ELSE LET e == entries[Len(entries)].text IN
       IF e.uri = uri /\ e.content # ""
            /\ e.method \in {"textDocument/didOpen", "textDocument/didChange"}
       THEN e.content
       ELSE Committed(SubSeq(entries, 1, Len(entries) - 1), uri)

C4_NoLostResponse ==
  \A i \in 1..Len(delivered) :
    LET d == delivered[i] IN
    /\ d.seq \in 1..Len(emitted)
    /\ emitted[d.seq].msg.id = d.id
    /\ emitted[d.seq].route = "response" /\ emitted[d.seq].to = d.waiter
    /\ \A j \in 1..Len(delivered) : j # i => delivered[j].seq # d.seq
    /\ \A k \in 1..Len(ws_out) : ws_out[k].kind = "server" => ws_out[k].seq # d.seq

\* C4's case: two callers of receive() have each been handed a response and
\* the callback has been handed a notification.
C4_TwoCallersServed ==
  /\ \E i, j \in 1..Len(delivered) : delivered[i].waiter = "fwd" /\ delivered[j].waiter = "signal"
  /\ \E k \in 1..Len(ws_out) : ws_out[k].kind = "server"

\* C18: when a receive(k) call returns by timeout, every other wait that is
\* outstanding under a different id keeps its registration and its future, so
\* its response is still routed to it.
C18_TimeoutIsolation ==
  [][ \A w \in Waiters :
        (future[w].state = "pending" /\ future'[w].state = "none")
        => \A v \in Waiters \ {w} :
             (future[v].state = "pending" /\ future[v].id # future[w].id
                /\ future[v].id \in DOMAIN response_map /\ response_map[future[v].id] = v)
             => /\ future'[v] = future[v]
                /\ future[v].id \in DOMAIN response_map'
                /\ response_map'[future[v].id] = v ]_vars

\* C18's case: the forwarded request timed out and the shutdown request of
\* the signal handler's cleanup(), outstanding under another id, was answered.
C18_OtherStillServed ==
  \E k \in 1..Len(log) : \E i \in 1..Len(delivered) :
    /\ log[k].outcome = "timeout"
    /\ delivered[i].waiter = "signal"
    /\ delivered[i].id # log[k].text.id

BatchFrames == 2
MaxBatchLen == 2

\* The messages the client puts in arrays, and sends alone for comparison;
\* handle_message answers each of them itself when it arrives in its own
\* frame (lines 201, 205 and 278).
BatchElements ==
  { Text("object", "1.0", "textDocument/completion", 1, TRUE),
    Text("object", "2.0", "textDocument/didOpen", None, FALSE) }

\* A text frame that is a JSON array of messages. json.loads returns a list,
\* which has no get (line 200).
Batch(elements) ==
  [json |-> "array", jsonrpc |-> "", method |-> "", id |-> None, params |-> FALSE,
   uri |-> "", content |-> "", elements |-> elements]

BatchTexts ==
  { Batch(elements) : elements \in UNION { [1..n -> BatchElements] : n \in 0..MaxBatchLen } }

InitBatch == \E entry \in EntryStates : LoopEntry(entry, BatchFrames)

NextBatch ==
  \/ \E text \in BatchTexts \cup BatchElements : HandleMessage(text)
  \/ Disconnect
  \/ EndpointFinally
  \/ EndpointUnregister
  \/ \E t \in Tasks : CleanupStart(t)
  \/ \E t \in Tasks : CleanupReceive(t)
  \/ \E t \in Tasks : CleanupResume(t)
  \/ \E t \in Tasks : CleanupExit(t)
  \/ \E t \in Tasks : CleanupStop(t)
  \/ \E t \in Tasks : CleanupFinish(t)

SpecBatch == InitBatch /\ [][NextBatch]_vars

\* The replies the elements get when each arrives in its own frame.
OwnFrameReplies(elements) ==
  [k \in 1..Len(elements) |->
     LocalReply(Classify(elements[k], initialized, open_documents, files), elements[k])]

C19_BatchTaken ==
  /\ Len(log) = 2
  /\ log[1].text \in BatchElements
  /\ log[2].text.json = "array"
  /\ Len(log[2].text.elements) = MaxBatchLen


\* ------------------------------------------------- waits on the pending map
\* The handshake with a child that may answer, stay silent or exit.
InitWaits == InitHandshake

NextWaits ==
  \/ Connect
  \/ InitializeStart
  \/ InitializeSend
  \/ InitializeReceive
  \/ InitializeResume
  \/ EndpointFinally
  \/ \E t \in Tasks : CleanupStart(t)
  \/ EndpointUnregister
  \/ \E k \in ChunkSizes(Len(pipe)) : ReadStdout(k)
  \/ ReadEof
  \/ \E i \in 1..Len(stdin) : ServerReply(i)
  \/ ServerNotify
  \/ ServerDies

\* The event loop runs every task that is ready and fires every timer that is
\* due (the timeout of wait_for among them), as long as the callback it is
\* running returns to it. The child is under no obligation, and no wait
\* depends on the reader getting its turn: its timer ends it.
FairWaits ==
  /\ WF_vars(Connect)
  /\ WF_vars(InitializeStart)
  /\ WF_vars(InitializeSend)
  /\ WF_vars(InitializeReceive)
  /\ WF_vars(InitializeResume)
  /\ WF_vars(EndpointFinally)
  /\ WF_vars(\E t \in Tasks : CleanupStart(t))
  /\ WF_vars(EndpointUnregister)
  /\ WF_vars(ReadEof)

SpecWaits == InitWaits /\ [][NextWaits]_vars /\ FairWaits

\* C20: every wait that registered in _response_map returns and its entry is
\* removed, whether the child answers, stays silent or exits.
C20_WaitsReturn ==
  \A w \in Waiters :
    (future[w].state = "pending" /\ future[w].id \in DOMAIN response_map)
      ~> (future[w].state = "none" /\ response_map = <<>>)


\* --------------------------------------- connections naming one interviewId
InitConnections == LoopEntry("fresh", 0)

NextConnections ==
  \/ \E c \in Connections, id \in SharedIds : ConnAccept(c, id)
  \/ \E c \in Connections : ConnInitialize(c)
  \/ \E c \in Connections : ConnInitialized(c)
  \/ \E c \in Connections : ConnDisconnect(c)
  \/ \E c \in Connections : ConnCleanup(c)
  \/ \E c \in Connections : ConnUnregister(c)

SpecConnections == InitConnections /\ [][NextConnections]_vars

\* The session of connection c is live: its endpoint is between the
\* registration and its finally clause.
LiveSession(c) == handlers[c].pc \in {"init", "init_wait", "loop"}

\* C21: while the session registered under an id is live, the entry under that
\* id keeps referring to it: no other connection replaces or removes it.
C21_RegistrationExclusive ==
  [][ \A id \in SharedIds :
        (registry[id] # "none" /\ LiveSession(registry[id]))
          => registry'[id] = registry[id] ]_vars

\* C22: no two live sessions have the same workspace path, and the workspace
\* directory of a session whose supervisor is running is neither removed nor
\* created anew by a step of another session.
C22_WorkspaceExclusive ==
  [][ \A c \in Connections :
        (handlers[c].pc \in {"init_wait", "loop"} /\ handlers[c].child = "alive")
          => /\ \A d \in Connections \ {c} :
                   (handlers'[d].pc \in {"init_wait", "loop"})
                     => WorkspacePath(handlers'[d].id) # WorkspacePath(handlers[c].id)
             /\ (handlers'[c] = handlers[c])
                   => wsdir'[handlers[c].id] = wsdir[handlers[c].id] ]_vars


\* ------------------------------------------- two termination paths at once
InitTermination == LoopEntry("initialized", 0)

NextTermination ==
  \/ Disconnect
  \/ EndpointFinally
  \/ EndpointUnregister
  \/ SignalShutdown
  \/ \E t \in Tasks : CleanupStart(t)
  \/ \E t \in Tasks : CleanupReceive(t)
  \/ \E t \in Tasks : CleanupResume(t)
  \/ \E t \in Tasks : CleanupExit(t)
  \/ \E t \in Tasks : CleanupStop(t)
  \/ \E t \in Tasks : CleanupFinish(t)
  \/ \E k \in ChunkSizes(Len(pipe)) : ReadStdout(k)
  \/ \E i \in 1..Len(stdin) : ServerReply(i)

SpecTermination == InitTermination /\ [][NextTermination]_vars

BadHeader == <<"X", ":", " ", "1">> \o CRLFCRLF

\* What the child wrote right behind the malformed block: nothing, or a
\* message nobody waits for.
Trailing == { <<>>, <<[id |-> 2, method |-> "", pad |-> PadLen]>> }

\* A started supervisor with the malformed block and what follows it waiting
\* in the pipe.
InitMalformed ==
  /\ sent \in Trailing
  /\ pipe = BadHeader \o Stream(sent)
  /\ buffer = <<>>
  /\ content_length = -1
  /\ running = TRUE
  /\ response_map = <<>>
  /\ future = [w \in Waiters |-> NoFuture]
  /\ ws_out = <<>>
  /\ emitted = <<>>
  /\ spinning = FALSE
  /\ reader = "reading"
  /\ notification_callback = TRUE
  /\ process = "alive"
  /\ stdin = <<>>
  /\ answered = {}
  /\ notified = 0
  /\ initialized = TRUE
  /\ next_id = 2
  /\ open_documents = {}
  /\ subprocess = TRUE
  /\ workspace = TRUE
  /\ files = Scaffold
  /\ registered = TRUE
  /\ pc = [t \in Tasks |-> IF t = "conn" THEN "loop" ELSE "idle"]
  /\ cur = NoText
  /\ ret = [t \in Tasks |-> "none"]
  /\ cl_id = [t \in Tasks |-> None]
  /\ quota = 0
  /\ delivered = <<>>
  /\ log = <<>>
  /\ NoSessions

\* The reader has taken the whole malformed block, so _process_buffer has
\* found its CRLF CRLF and cleared the buffer.
Discarded == Len(pipe) <= Len(Stream(sent)) + notified * Len(Frame(Encode([id |-> None, method |-> "window/logMessage", pad |-> 0])))

\* The child writes a well-formed notification after the discard.
NotifyAfterDiscard == Discarded /\ ServerNotify

NextMalformed ==
  \/ \E k \in 1..Min(Len(pipe), ReadSize) : ReadStdout(k)
  \/ NotifyAfterDiscard

SpecMalformed == InitMalformed /\ [][NextMalformed]_vars

\* The notifications _process_buffer has handed to the callback.
Dispatched == {i \in 1..Len(emitted) : emitted[i].route = "notification"}

\* C25: after the buffer was discarded for a malformed header block, every
\* well-formed frame the child writes from then on is decoded: it has been
\* dispatched, or the reader is able to go on reading.
C25_DecodesAfterDiscard ==
  /\ Cardinality(Dispatched) <= notified
  /\ (Cardinality(Dispatched) = notified \/ (pipe # <<>> /\ ~spinning))


\* ------------------------------------------------ shutdown from the client
\* How many text frames the client sends in this check.
ClientShutdownFrames == 2

\* The client's shutdown request and a completion request.
ShutdownTexts ==
  { Text("object", "2.0", "shutdown", 1, FALSE),
    Text("object", "2.0", "textDocument/completion", 2, TRUE) }

InitClientShutdown == LoopEntry("initialized", ClientShutdownFrames)

NextClientShutdown ==
  \/ \E text \in ShutdownTexts : HandleMessage(text)
  \/ ForwardReceive
  \/ ForwardResume
  \/ \E k \in ChunkSizes(Len(pipe)) : ReadStdout(k)
  \/ \E i \in 1..Len(stdin) : ServerReply(i)

SpecClientShutdown == InitClientShutdown /\ [][NextClientShutdown]_vars

MaxContentLen == 3
MaxChanges == 2
MaxLine == 1
MaxChar == 2

NL == "\n"

\* The characters of file contents and of change texts.
ContentChars == {"a", NL}
ChangeTexts == { <<>>, <<"X">> }

\* str.split("\n"): the pieces between the newlines, the last one included.
RECURSIVE SplitNL(_)
SplitNL(str) ==
  LET n == Find(str, <<NL>>) IN
  IF n = -1 THEN <<str>>
  ELSE <<Take(str, n)>> \o SplitNL(Drop(str, n + 1))

\* str.splitlines(): the lines without their ends; a final line end opens no
\* further line and the empty text has no lines.
SplitLines(str) ==
  LET parts == SplitNL(str) IN
  IF parts[Len(parts)] = <<>> THEN Take(parts, Len(parts) - 1) ELSE parts

\* "\n".join(lines).
RECURSIVE JoinNL(_)
JoinNL(lines) ==
  IF lines = <<>> THEN <<>>
  ELSE IF Len(lines) = 1 THEN lines[1]
  ELSE lines[1] \o <<NL>> \o JoinNL(Tail(lines))

\* line[:n] and line[n:] for n >= 0: slices clamp to the length.
SliceTo(line, n) == Take(line, Min(n, Len(line)))
SliceFrom(line, n) == Drop(line, Min(n, Len(line)))

\* A change without range, and a change with a range.
FullChange(text) == [ranged |-> FALSE, sl |-> 0, sc |-> 0, el |-> 0, ec |-> 0, text |-> text]
RangeChange(sl, sc, el, ec, text) ==
  [ranged |-> TRUE, sl |-> sl, sc |-> sc, el |-> el, ec |-> ec, text |-> text]

\* handle_message lines 226-235 for one change: ok is FALSE when
\* lines[start["line"]] raises IndexError.
ApplyChange(content, change) ==
  IF ~change.ranged THEN [ok |-> TRUE, content |-> change.text]
  ELSE LET lines == SplitLines(content) IN
       IF change.sl + 1 > Len(lines) THEN [ok |-> FALSE, content |-> content]
       ELSE LET line == lines[change.sl + 1]
                new_line == SliceTo(line, change.sc) \o change.text \o SliceFrom(line, change.ec)
            IN  [ok |-> TRUE,
                 content |-> JoinNL([lines EXCEPT ![change.sl + 1] = new_line])]

\* The loop of lines 225-235 over contentChanges.
RECURSIVE ApplyChanges(_, _)
ApplyChanges(content, changes) ==
  IF changes = <<>> THEN [ok |-> TRUE, content |-> content]
  ELSE LET r == ApplyChange(content, Head(changes)) IN
       IF r.ok THEN ApplyChanges(r.content, Tail(changes)) ELSE r

\* The ranges of the client: the start is not behind the end.
ClientRanges ==
  { rg \in [sl : 0..MaxLine, sc : 0..MaxChar, el : 0..MaxLine, ec : 0..MaxChar] :
      rg.sl < rg.el \/ (rg.sl = rg.el /\ rg.sc <= rg.ec) }

\* The content changes of the client.
ClientChanges ==
  { FullChange(t) : t \in ChangeTexts }
  \cup { RangeChange(rg.sl, rg.sc, rg.el, rg.ec, t) : rg \in ClientRanges, t \in ChangeTexts }

\* A didChange for the main file with its contentChanges.
ChangeText(changes) ==
  [json |-> "object", jsonrpc |-> "2.0", method |-> "textDocument/didChange", id |-> None,
   params |-> TRUE, uri |-> Uri, content |-> "", changes |-> changes]

\* handle_message for a didChange of the main file with a non-empty
\* contentChanges list (lines 216-243, 261-262): the file is rewritten and
\* the notifications are written to the child, or the exception of the loop
\* is answered at line 278 with the file as it was.
DidChange(changes) ==
  LET text == ChangeText(changes)
      r == ApplyChanges(files[PathOf(Uri)], changes)
  IN
  /\ pc["conn"] = "loop" /\ ~spinning
  /\ initialized
  /\ quota > 0
  /\ quota' = quota - 1
  /\ cur' = text
  /\ IF r.ok
     THEN /\ files' = [files EXCEPT ![PathOf(Uri)] = r.content]
          /\ Forward(text)
     ELSE /\ ws_out' = Append(ws_out, ErrorReply(None, -32603))
          /\ log' = Logged(text, "internal_error", "error")
          /\ UNCHANGED <<files, stdin, pc>>
  /\ UNCHANGED <<pipe, buffer, content_length, running, response_map, future, emitted,
                 spinning, reader, notification_callback, process, answered, notified, sent, sessVars>>
  /\ UNCHANGED <<initialized, next_id, open_documents, subprocess, workspace, registered,
                 ret, cl_id, delivered>>

\* An initialized session whose main file holds some text.
InitChanges ==
  /\ \E content \in UNION { [1..n -> ContentChars] : n \in 0..MaxContentLen } :
       files = [p \in Paths |-> IF p = PathOf(Uri) THEN content ELSE Absent]
  /\ pipe = <<>> /\ buffer = <<>> /\ content_length = -1
  /\ running = TRUE
  /\ response_map = <<>>
  /\ future = [w \in Waiters |-> NoFuture]
  /\ emitted = <<>> /\ spinning = FALSE
  /\ reader = "reading"
  /\ notification_callback = TRUE
  /\ process = "alive"
  /\ stdin = HandshakeFrames("initialized")
  /\ answered = {1}
  /\ notified = 0
  /\ sent = <<>>
  /\ initialized = TRUE
  /\ next_id = 2
  /\ open_documents = {Uri}
  /\ subprocess = TRUE
  /\ workspace = TRUE
  /\ ws_out = <<>> /\ registered = TRUE
  /\ pc = [t \in Tasks |-> IF t = "conn" THEN "loop" ELSE "idle"]
  /\ cur = NoText
  /\ ret = [t \in Tasks |-> "none"]
  /\ cl_id = [t \in Tasks |-> None]
  /\ quota = 1 /\ delivered = <<>> /\ log = <<>>
  /\ NoSessions

NextChanges ==
  /\ quota > 0
  /\ \E changes \in UNION { [1..n -> ClientChanges] : n \in 1..MaxChanges } : DidChange(changes)

SpecChanges == InitChanges /\ [][NextChanges]_vars

\* The offset of position (line, character) in content, or -1 when content
\* has no such position.
Offset(content, line, char) ==
  LET parts == SplitNL(content) IN
  IF line + 1 > Len(parts) \/ char > Len(parts[line + 1]) THEN -1
  ELSE Len(JoinNL(Take(parts, line))) + (IF line > 0 THEN 1 ELSE 0) + char

\* A change applies to content: it has no range, or its range lies in content
\* with its start not behind its end.
Applies(content, change) ==
  \/ ~change.ranged
  \/ /\ Offset(content, change.sl, change.sc) >= 0
     /\ Offset(content, change.el, change.ec) >= Offset(content, change.sl, change.sc)

\* content with the change applied: the text between the start and the end
\* position replaced, every other character kept.
Replaced(content, change) ==
  IF ~change.ranged THEN change.text
  ELSE Take(content, Offset(content, change.sl, change.sc)) \o change.text
       \o Drop(content, Offset(content, change.el, change.ec))

\* content with the changes applied in order; ok is FALSE when one of them
\* does not apply.
RECURSIVE ReplacedAll(_, _)
ReplacedAll(content, changes) ==
  IF changes = <<>> THEN [ok |-> TRUE, content |-> content]
  ELSE IF ~Applies(content, Head(changes)) THEN [ok |-> FALSE, content |-> content]
  ELSE ReplacedAll(Replaced(content, Head(changes)), Tail(changes))

MaxVerifyAttempts == 3
MaxJavaCalls == 2
MaxJavaNotifications == 2

\* Everything of the gateway; the second entry point leaves it alone.
gatewayVars == <<supVars, handlerVars, endpointVars, active_connections, dirs, sess,
                 outbox, handlers, registry, wsdir>>

\* The gateway is not part of the second entry point's process.
NoGateway ==
  /\ pipe = <<>> /\ buffer = <<>> /\ content_length = -1
  /\ running = FALSE
  /\ response_map = <<>>
  /\ future = [w \in Waiters |-> NoFuture]
  /\ emitted = <<>> /\ spinning = FALSE /\ reader = "none"
  /\ notification_callback = FALSE
  /\ process = "none" /\ stdin = <<>> /\ answered = {} /\ notified = 0
  /\ sent = <<>>
  /\ initialized = FALSE /\ next_id = 1 /\ open_documents = {}
  /\ subprocess = FALSE
  /\ workspace = FALSE
  /\ files = NoFiles
  /\ ws_out = <<>> /\ registered = FALSE
  /\ pc = [t \in Tasks |-> "idle"]
  /\ cur = NoText
  /\ ret = [t \in Tasks |-> "none"]
  /\ cl_id = [t \in Tasks |-> None]
  /\ quota = 0 /\ delivered = <<>> /\ log = <<>>
  /\ NoConnections

\* queue.Queue.put on the FIFO queue: the item goes to the tail.
Put_Front(q, item) == <<item>> \o q

Put(q, item) == Append(q, item)

\* What a call gave its caller: a response, an error dict with its message,
\* or an exception.
Gave(kind, id) == [kind |-> kind, id |-> id]

\* _start_java_server, lines 114-124: Popen.
StartJavaServer ==
  /\ lsp_pc = "startup"
  /\ _java_process' = "alive"
  /\ lsp_pc' = "started"
  /\ UNCHANGED <<_java_queue, _java_request_id, _initialized, java_stdin, java_stdout,
                 java_written, java_answered, java_reader, request_id, response, attempts, returned, calls>>
  /\ UNCHANGED <<docVars, gatewayVars>>

\* _start_java_server, lines 127-138: after two seconds the process has
\* exited (RuntimeError, which initialize_servers catches) or is running; then
\* initialize_servers starts the reader threads (lines 29-39).
StartCheck ==
  /\ lsp_pc = "started"
  /\ IF _java_process = "died"
     THEN lsp_pc' = "failed" /\ UNCHANGED java_reader
     ELSE lsp_pc' = "verify" /\ java_reader' = "running"
  /\ UNCHANGED <<_java_process, _java_queue, _java_request_id, _initialized, java_stdin,
                 java_stdout, java_written, java_answered, request_id, response, attempts, returned, calls>>
  /\ UNCHANGED <<docVars, gatewayVars>>

\* send_java_request up to its wait: RuntimeError when the manager is not
\* initialized or the process is not running, else the request is written and
\* _wait_for_response(message_id) begins.
SendJavaRequest ==
  IF ~_initialized \/ _java_process # "alive"
  THEN /\ returned' = Append(returned, Gave("RuntimeError", None))
       /\ UNCHANGED <<_java_request_id, java_stdin, request_id, lsp_pc>>
  ELSE /\ _java_request_id' = _java_request_id + 1
       /\ java_stdin' = Append(java_stdin, [id |-> _java_request_id])
       /\ request_id' = _java_request_id
       /\ lsp_pc' = "wait"
       /\ UNCHANGED returned

\* One iteration of _verify_server_ready's loop, lines 58-79: the call of
\* send_java_request; its exception is caught and the loop sleeps a second.
VerifyAttempt ==
  /\ lsp_pc = "verify"
  /\ attempts < MaxVerifyAttempts
  /\ attempts' = attempts + 1
  /\ SendJavaRequest
  /\ UNCHANGED <<_java_process, _java_queue, _initialized, java_stdout, java_written, java_answered,
                 java_reader, response, calls>>
  /\ UNCHANGED <<docVars, gatewayVars>>

\* _verify_server_ready, lines 58 and 81-82: the thirty seconds are over, it
\* returns False and initialize_servers raises (line 43).
VerifyTimeout ==
  /\ lsp_pc = "verify"
  /\ attempts >= 1
  /\ lsp_pc' = "failed"
  /\ UNCHANGED <<_java_process, _java_queue, _java_request_id, _initialized, java_stdin,
                 java_stdout, java_written, java_answered, java_reader, request_id, response, attempts,
                 returned, calls>>
  /\ UNCHANGED <<docVars, gatewayVars>>

\* shutdown(), lines 306-333: the exit notification when initialized and the
\* process runs, terminate or kill, and the class attributes reset.
Shutdown ==
  /\ java_stdin' = IF _java_process = "alive" /\ _initialized
                   THEN Append(java_stdin, [id |-> None]) ELSE java_stdin
  /\ _java_process' = "none"
  /\ _initialized' = FALSE

\* initialize_servers, lines 47-50: shutdown() and the exception goes on to
\* the startup event.
InitializeServersFails ==
  /\ lsp_pc = "failed"
  /\ Shutdown
  /\ lsp_pc' = "raised"
  /\ UNCHANGED <<_java_queue, _java_request_id, java_stdout, java_written, java_answered, java_reader,
                 request_id, response, attempts, returned, calls>>
  /\ UNCHANGED <<docVars, gatewayVars>>

\* _read_java_output, lines 147-190: one message read from stdout, decoded
\* and put on the queue.
ReadJavaOutput ==
  /\ java_reader = "running"
  /\ _java_process = "alive"
  /\ java_stdout # <<>>
  /\ _java_queue' = Put(_java_queue, Head(java_stdout))
  /\ java_stdout' = Tail(java_stdout)
  /\ UNCHANGED <<_java_process, _java_request_id, _initialized, java_stdin, java_written, java_answered,
                 java_reader, lsp_pc, request_id, response, attempts, returned, calls>>
  /\ UNCHANGED <<docVars, gatewayVars>>

\* _read_java_output, lines 147 and 198-199: the loop ends when the process
\* handle is gone or the process has exited.
ReaderExits ==
  /\ java_reader = "running"
  /\ _java_process # "alive"
  /\ java_reader' = "exited"
  /\ UNCHANGED <<_java_process, _java_queue, _java_request_id, _initialized, java_stdin,
                 java_stdout, java_written, java_answered, lsp_pc, request_id, response, attempts,
                 returned, calls>>
  /\ UNCHANGED <<docVars, gatewayVars>>

\* The Java server writes a message: seq is its position in the output.
Writes(id) ==
  /\ java_written' = java_written + 1
  /\ java_stdout' = Append(java_stdout, [id |-> id, seq |-> java_written + 1])

\* The Java server sends a notification (diagnostics, progress, log).
JavaNotifies ==
  /\ _java_process = "alive"
  /\ java_written - java_answered < MaxJavaNotifications
  /\ Writes(None)
  /\ UNCHANGED <<java_answered, _java_process, _java_queue, _java_request_id, _initialized, java_stdin,
                 java_reader, lsp_pc, request_id, response, attempts, returned, calls>>
  /\ UNCHANGED <<docVars, gatewayVars>>

\* The Java server exits by itself.
JavaDies ==
  /\ _java_process = "alive"
  /\ _java_process' = "died"
  /\ UNCHANGED <<_java_queue, _java_request_id, _initialized, java_stdin, java_stdout,
                 java_written, java_answered, java_reader, lsp_pc, request_id, response, attempts,
                 returned, calls>>
  /\ UNCHANGED <<docVars, gatewayVars>>

\* The startup event of src/main.py, lines 39-48: initialize_servers.
InitStartup ==
  /\ NoGateway /\ NoDocuments
  /\ _java_process = "none"
  /\ _java_queue = <<>>
  /\ _java_request_id = 1
  /\ _initialized = FALSE
  /\ java_stdin = <<>> /\ java_stdout = <<>> /\ java_written = 0 /\ java_answered = 0
  /\ java_reader = "none"
  /\ lsp_pc = "startup"
  /\ request_id = None /\ response = NoResponse
  /\ attempts = 0
  /\ returned = <<>>
  /\ calls = 0

NextStartup ==
  \/ StartJavaServer
  \/ StartCheck
  \/ VerifyAttempt
  \/ VerifyTimeout
  \/ InitializeServersFails
  \/ ReadJavaOutput
  \/ ReaderExits
  \/ JavaNotifies
  \/ JavaDies

\* The startup thread runs on; the Java server owes no step.
FairStartup ==
  /\ WF_vars(StartJavaServer)
  /\ WF_vars(StartCheck)
  /\ WF_vars(VerifyAttempt \/ VerifyTimeout)
  /\ WF_vars(InitializeServersFails)

SpecStartup == InitStartup /\ [][NextStartup]_vars /\ FairStartup

\* C36: when the Java process starts and stays alive, initialize_servers
\* eventually returns normally with _initialized = TRUE (the server answers
\* every request it is sent).
C36_StartupCompletes ==
  <>(_java_process = "died") \/ <>(lsp_pc = "returned" /\ _initialized)

\* ----------------------------------------- LSPManager: requests and waits
\* The services' calls on a manager whose _initialized is True and whose
\* server runs: the state a completed initialize_servers would leave.

\* A service calls send_java_request (java_service.py lines 75 and 144).
JavaRequest ==
  /\ lsp_pc = "idle"
  /\ calls > 0
  /\ calls' = calls - 1
  /\ SendJavaRequest
  /\ UNCHANGED <<_java_process, _java_queue, _initialized, java_stdout, java_written,
                 java_answered, java_reader, response, attempts>>
  /\ UNCHANGED <<docVars, gatewayVars>>

\* A service calls send_java_notification (java_service.py lines 84 and 129).
SendJavaNotification ==
  /\ lsp_pc = "idle"
  /\ calls > 0
  /\ calls' = calls - 1
  /\ IF ~_initialized \/ _java_process # "alive"
     THEN /\ returned' = Append(returned, Gave("RuntimeError", None))
          /\ UNCHANGED java_stdin
     ELSE /\ java_stdin' = Append(java_stdin, [id |-> None])
          /\ returned' = Append(returned, Gave("None", None))
  /\ UNCHANGED <<_java_process, _java_queue, _java_request_id, _initialized, java_stdout,
                 java_written, java_answered, java_reader, lsp_pc, request_id, response,
                 attempts>>
  /\ UNCHANGED <<docVars, gatewayVars>>

\* _wait_for_response, lines 289-292: a message is taken from the queue; it
\* is returned when its id is the awaited one.
WaitGet ==
  /\ lsp_pc = "wait"
  /\ _java_queue # <<>>
  /\ response' = Head(_java_queue)
  /\ _java_queue' = Tail(_java_queue)
  /\ IF Head(_java_queue).id = request_id
     THEN /\ lsp_pc' = "idle"
          /\ returned' = Append(returned, Gave("response", Head(_java_queue).id))
     ELSE /\ lsp_pc' = "put_back"
          /\ UNCHANGED returned
  /\ UNCHANGED <<_java_process, _java_request_id, _initialized, java_stdin, java_stdout,
                 java_written, java_answered, java_reader, request_id, attempts, calls>>
  /\ UNCHANGED <<docVars, gatewayVars>>

\* _wait_for_response, lines 294-296: the unmatched message is put back.
WaitPutBack ==
  /\ lsp_pc = "put_back"
  /\ _java_queue' = Put(_java_queue, response)
  /\ lsp_pc' = "wait"
  /\ UNCHANGED <<_java_process, _java_request_id, _initialized, java_stdin, java_stdout,
                 java_written, java_answered, java_reader, request_id, response, attempts,
                 returned, calls>>
  /\ UNCHANGED <<docVars, gatewayVars>>

\* _wait_for_response, lines 298-300: queue.Empty after half a second and the
\* process has exited; send_java_request turns the RuntimeError into an error
\* dict (lines 254-256).
WaitEmpty ==
  /\ lsp_pc = "wait"
  /\ _java_queue = <<>>
  /\ _java_process = "died"
  /\ lsp_pc' = "idle"
  /\ returned' = Append(returned, Gave("error: terminated", request_id))
  /\ UNCHANGED <<_java_process, _java_queue, _java_request_id, _initialized, java_stdin,
                 java_stdout, java_written, java_answered, java_reader, request_id,
                 response, attempts, calls>>
  /\ UNCHANGED <<docVars, gatewayVars>>

\* _wait_for_response, lines 287 and 303: the thirty seconds are over;
\* send_java_request turns the TimeoutError into an error dict.
WaitTimeout ==
  /\ lsp_pc = "wait"
  /\ lsp_pc' = "idle"
  /\ returned' = Append(returned, Gave("error: timeout", request_id))
  /\ UNCHANGED <<_java_process, _java_queue, _java_request_id, _initialized, java_stdin,
                 java_stdout, java_written, java_answered, java_reader, request_id,
                 response, attempts, calls>>
  /\ UNCHANGED <<docVars, gatewayVars>>

\* The requests in java_stdin, in order.
JavaRequests == SelectSeq(java_stdin, LAMBDA m : m.id # None)

\* The Java server answers the oldest request it has not answered.
JavaReplies ==
  /\ _java_process = "alive"
  /\ java_answered < Len(JavaRequests)
  /\ java_answered' = java_answered + 1
  /\ Writes(JavaRequests[java_answered + 1].id)
  /\ UNCHANGED <<_java_process, _java_queue, _java_request_id, _initialized, java_stdin,
                 java_reader, lsp_pc, request_id, response, attempts, returned, calls>>
  /\ UNCHANGED <<docVars, gatewayVars>>

InitRequests ==
  /\ NoGateway /\ NoDocuments
  /\ _java_process = "alive"
  /\ _java_queue = <<>>
  /\ _java_request_id = 2
  /\ _initialized = TRUE
  /\ java_stdin = <<[id |-> 1]>> /\ java_stdout = <<>>
  /\ java_written = 1 /\ java_answered = 1
  /\ java_reader = "running"
  /\ lsp_pc = "idle"
  /\ request_id = None /\ response = NoResponse
  /\ attempts = 1
  /\ returned = <<>>
  /\ calls = MaxJavaCalls

NextRequests ==
  \/ JavaRequest
  \/ SendJavaNotification
  \/ WaitGet
  \/ WaitPutBack
  \/ WaitEmpty
  \/ WaitTimeout
  \/ ReadJavaOutput
  \/ ReaderExits
  \/ JavaNotifies
  \/ JavaReplies
  \/ JavaDies

SpecRequests == InitRequests /\ [][NextRequests]_vars

\* Two messages that neither are the awaited response sit in the queue in the
\* opposite order from the one in which the server wrote them and the reader
\* enqueued them.
Reordered ==
  \E i, j \in 1..Len(_java_queue) :
    /\ i < j
    /\ _java_queue[i].id # request_id /\ _java_queue[j].id # request_id
    /\ _java_queue[i].seq > _java_queue[j].seq

MaxDocCalls == 3

\* Interview ids, as their characters; "a_x" begins with "a" and an
\* underscore.
Interviews == { <<"a">>, <<"a", "_", "x">>, <<"b">> }

Languages == {"java", "python"}

\* Document URIs, as their path components; two have the same last one.
DocUris == { <<"d1", "Main.java">>, <<"d2", "Main.java">> }

Texts == {"t1", "t2"}

\* f"{interview_id}_{language}"
ServiceKey(interview_id, language) == interview_id \o <<"_", language>>

\* Path(uri).name
FileName(uri) == uri[Len(uri)]

\* config.WORKSPACE_DIR / interview_id / language, and a file in it.
WorkspaceFile(interview_id, language, file_name) == <<interview_id, language, file_name>>

\* f restricted to the keys in S.
Restrict(f, S) == [x \in S |-> f[x]]

\* _write_file, lines 99-106: the path written, and the disk afterwards.
WriteFile(interview_id, uri, language_id, text) ==
  LET file_path == WorkspaceFile(interview_id, language_id, FileName(uri))
  IN  [file_path |-> file_path, disk |-> (file_path :> text) @@ disk]

\* One more call of the DocumentManager.
DocCall(op, interview_id) ==
  /\ doc_calls > 0
  /\ doc_calls' = doc_calls - 1
  /\ doc_cur' = [op |-> op, interview_id |-> interview_id]

\* did_open, lines 40-49.
did_open(interview_id, uri, language_id, text) ==
  /\ DocCall("did_open", interview_id)
  /\ LET w == WriteFile(interview_id, uri, language_id, text)
     IN  /\ disk' = w.disk
         /\ documents' = (uri :> [interview_id |-> interview_id, languageId |-> language_id,
                                  text |-> text, file_path |-> w.file_path]) @@ documents
  /\ opened' = [opened EXCEPT ![interview_id] = @ \cup {uri}]
  /\ UNCHANGED services
  /\ UNCHANGED <<lspVars, gatewayVars>>

\* did_change, lines 55-60: nothing when the URI is not open.
did_change(interview_id, uri, text) ==
  /\ DocCall("did_change", interview_id)
  /\ IF uri \in DOMAIN documents
     THEN /\ documents' = [documents EXCEPT ![uri].text = text]
          /\ disk' = WriteFile(interview_id, uri, documents[uri].languageId, text).disk
     ELSE UNCHANGED <<documents, disk>>
  /\ UNCHANGED <<services, opened>>
  /\ UNCHANGED <<lspVars, gatewayVars>>

\* get_completions, lines 65-82, as far as the manager's state goes: its
\* get_service(interview_id, language), lines 23-38. PythonService.__init__
\* never raises (python_service.py lines 17-37); JavaService.__init__ writes
\* pom.xml and raises when send_java_request does (java_service.py lines
\* 22-92, lsp_manager.py lines 230-234), else it has sent initialize.
get_completions(interview_id, uri) ==
  /\ DocCall("get_completions", interview_id)
  /\ uri \in DOMAIN documents
  /\ LET language == documents[uri].languageId
         service_key == ServiceKey(interview_id, language)
     IN  IF service_key \in services
         THEN UNCHANGED <<services, disk, _java_request_id, java_stdin>>
         ELSE IF language = "python"
         THEN /\ services' = services \cup {service_key}
              /\ UNCHANGED <<disk, _java_request_id, java_stdin>>
         ELSE /\ disk' = IF WorkspaceFile(interview_id, language, "pom.xml") \in DOMAIN disk
                         THEN disk
                         ELSE (WorkspaceFile(interview_id, language, "pom.xml") :> "pom") @@ disk
              /\ IF _initialized /\ _java_process = "alive"
                 THEN /\ services' = services \cup {service_key}
                      /\ _java_request_id' = _java_request_id + 1
                      /\ java_stdin' = Append(java_stdin, [id |-> _java_request_id])
                 ELSE UNCHANGED <<services, _java_request_id, java_stdin>>
  /\ UNCHANGED <<documents, opened>>
  /\ UNCHANGED <<_java_process, _java_queue, _initialized, java_stdout, java_written,
                 java_answered, java_reader, lsp_pc, request_id, response, attempts,
                 returned, calls>>
  /\ UNCHANGED gatewayVars

\* key.startswith(f"{interview_id}_")
StartsWith(key, interview_id) == IsPrefix(interview_id \o <<"_">>, key)

\* cleanup_interview, lines 111-126.
cleanup_interview(interview_id) ==
  /\ DocCall("cleanup_interview", interview_id)
  /\ services' = { key \in services : ~StartsWith(key, interview_id) }
  /\ documents' = Restrict(documents, { uri \in DOMAIN documents :
                                          documents[uri].interview_id # interview_id })
  /\ disk' = Restrict(disk, { path \in DOMAIN disk : path[1] # interview_id })
  /\ opened' = [opened EXCEPT ![interview_id] = {}]
  /\ UNCHANGED <<lspVars, gatewayVars>>

\* The manager after construction; the LSPManager has been initialized or
\* has not.
InitDocManager ==
  /\ NoGateway
  /\ _java_process \in {"none", "alive"}
  /\ _initialized = (_java_process = "alive")
  /\ _java_queue = <<>>
  /\ _java_request_id = 1
  /\ java_stdin = <<>> /\ java_stdout = <<>> /\ java_written = 0 /\ java_answered = 0
  /\ java_reader = IF _java_process = "alive" THEN "running" ELSE "none"
  /\ lsp_pc = "idle"
  /\ request_id = None /\ response = NoResponse
  /\ attempts = 0
  /\ returned = <<>>
  /\ calls = 0
  /\ documents = <<>>
  /\ services = {}
  /\ disk = <<>>
  /\ opened = [i \in Interviews |-> {}]
  /\ doc_cur = [op |-> "", interview_id |-> <<>>]
  /\ doc_calls = MaxDocCalls

NextDocManager ==
  \/ \E i \in Interviews, uri \in DocUris, language \in Languages, text \in Texts :
       did_open(i, uri, language, text)
  \/ \E i \in Interviews, uri \in DocUris, text \in Texts : did_change(i, uri, text)
  \/ \E i \in Interviews, uri \in DocUris : get_completions(i, uri)
  \/ \E i \in Interviews : cleanup_interview(i)

SpecDocManager == InitDocManager /\ [][NextDocManager]_vars

\* C37: cleanup_interview(a) keeps, for every other interview b, all of b's
\* entries in services and every document b has opened in documents.
C37_CleanupFrame ==
  [][ (doc_calls' < doc_calls /\ doc_cur'.op = "cleanup_interview")
        => \A b \in Interviews \ {doc_cur'.interview_id} :
             /\ \A language \in Languages :
                  ServiceKey(b, language) \in services
                    => ServiceKey(b, language) \in services'
             /\ \A uri \in opened[b] :
                  uri \in DOMAIN documents => uri \in DOMAIN documents' ]_vars

\* did_open and did_change alone.
NextDocWrites ==
  \/ \E i \in Interviews, uri \in DocUris, language \in Languages, text \in Texts :
       did_open(i, uri, language, text)
  \/ \E i \in Interviews, uri \in DocUris, text \in Texts : did_change(i, uri, text)

SpecDocWrites == InitDocManager /\ [][NextDocWrites]_vars

\* C38: for every URI in documents the file at documents[uri].file_path holds
\* exactly documents[uri].text.
C38_FileHoldsText ==
  \A uri \in DOMAIN documents :
    /\ documents[uri].file_path \in DOMAIN disk
    /\ disk[documents[uri].file_path] = documents[uri].text

====
